---- MODULE Spec2Model ----
(***************************************************************************)
(* OrchestrAI: the conversation state machine of graph/nodes.py and        *)
(* graph/builder.py, the recipient resolver, the draft merger and the      *)
(* contact directory of services/contact_directory.py.                     *)
(*                                                                         *)
(* Text is modelled as a sequence of one-character strings, so that        *)
(* strip(), lower(), the e-mail regular expression, _normalize and the     *)
(* difflib similarity ratio are computed the way the code computes them.   *)
(***************************************************************************)
EXTENDS Integers, Sequences, FiniteSets, TLC

(***************************************************************************)
(* Text helpers (Python str methods used by the code)                      *)
(***************************************************************************)
UpperAlpha == <<"A","B","C","D","E","F","G","H","I","J","K","L","M",
                "N","O","P","Q","R","S","T","U","V","W","X","Y","Z">>

LowerAlpha == <<"a","b","c","d","e","f","g","h","i","j","k","l","m",
                "n","o","p","q","r","s","t","u","v","w","x","y","z">>

Digits == {"0","1","2","3","4","5","6","7","8","9"}

Range(s) == {s[i] : i \in DOMAIN s}

\* str.isspace() of one character
IsSpace(ch) == ch \in {" ", "\t", "\n"}

\* str.isalnum() of one character
IsAlnum(ch) == ch \in Range(UpperAlpha) \cup Range(LowerAlpha) \cup Digits

\* str.lower() of one character
LowerCh(ch) ==
    IF ch \in Range(UpperAlpha)
    THEN LowerAlpha[CHOOSE i \in DOMAIN UpperAlpha : UpperAlpha[i] = ch]
    ELSE ch

\* str.lower()
Lower(s) == [i \in DOMAIN s |-> LowerCh(s[i])]

RECURSIVE LStrip(_)
LStrip(s) == IF s # <<>> /\ IsSpace(Head(s)) THEN LStrip(Tail(s)) ELSE s

RECURSIVE RStrip(_)
RStrip(s) ==
    IF s # <<>> /\ IsSpace(s[Len(s)]) THEN RStrip(SubSeq(s, 1, Len(s) - 1)) ELSE s

\* str.strip()
Strip(s) == RStrip(LStrip(s))

StartsWith(s, ch) == s # <<>> /\ s[1] = ch
EndsWith(s, ch) == s # <<>> /\ s[Len(s)] = ch

Min2(a, b) == IF a <= b THEN a ELSE b

\* Optional values: None is <<>>, a value v is <<v>>.  pending_contact_capture
\* {} is <<>> too (the code tests its truthiness only).
None == <<>>
Some(v) == <<v>>

(***************************************************************************)
(* services/contact_directory.py                                           *)
(***************************************************************************)
\* EMAIL_REGEX = ^[^@\s]+@[^@\s]+\.[^@\s]+$ : one "@", no white space, a
\* non-empty local part, and a "." inside the domain with at least one
\* character on each side of it.
EmailRegexMatch(s) ==
    \E at \in DOMAIN s :
        /\ s[at] = "@"
        /\ at > 1
        /\ \A i \in DOMAIN s : ~IsSpace(s[i]) /\ (s[i] = "@" => i = at)
        /\ \E dot \in (at + 2)..(Len(s) - 1) : s[dot] = "."

is_valid_email(value) == EmailRegexMatch(Strip(value))

\* _normalize: keep alphanumerics and white space, lower-case, strip.
normalize(value) ==
    Strip(Lower(SelectSeq(value, LAMBDA ch : IsAlnum(ch) \/ IsSpace(ch))))

\* Contact.name : f"{first_name} {last_name}".strip()
ContactName(c) == Strip(c.first_name \o <<" ">> \o c.last_name)

\* email.split("@", 1)[0]
RECURSIVE LocalPart(_)
LocalPart(email) ==
    IF email = <<>> \/ Head(email) = "@" THEN <<>>
    ELSE <<Head(email)>> \o LocalPart(Tail(email))

\* Length of the common run of a and b starting at a[i], b[j], inside
\* a[..ahi], b[..bhi].
RunLen(a, b, i, j, ahi, bhi) ==
    LET room == Min2(ahi - i + 1, bhi - j + 1)
    IN  CHOOSE k \in 0..room :
            /\ \A d \in 0..(k - 1) : a[i + d] = b[j + d]
            /\ (k = room \/ a[i + k] # b[j + k])

\* The largest of lens, 0 when there is none.
Longest(lens) ==
    IF lens = {} THEN 0 ELSE CHOOSE m \in lens : \A n \in lens : n <= m

\* The block of size k starting earliest in b, given its start i in a.
BlockAt(a, b, i, blo, ahi, bhi, k) ==
    <<i,
      CHOOSE x \in blo..bhi :
          /\ RunLen(a, b, i, x, ahi, bhi) = k
          /\ \A y \in blo..(x - 1) : RunLen(a, b, i, y, ahi, bhi) # k,
      k>>

\* The block of size k starting earliest in a, and among those earliest in b.
BlockOf(a, b, alo, ahi, blo, bhi, k) ==
    IF k = 0 THEN <<alo, blo, 0>>
    ELSE BlockAt(a, b,
                 CHOOSE x \in alo..ahi :
                     /\ \E j \in blo..bhi : RunLen(a, b, x, j, ahi, bhi) = k
                     /\ \A y \in alo..(x - 1) :
                           \A j \in blo..bhi : RunLen(a, b, y, j, ahi, bhi) # k,
                 blo, ahi, bhi, k)

\* difflib.SequenceMatcher.find_longest_match without junk: the longest
\* block, the one starting earliest in a, and among those earliest in b.
FindLongestMatch(a, b, alo, ahi, blo, bhi) ==
    BlockOf(a, b, alo, ahi, blo, bhi,
            Longest({RunLen(a, b, i, j, ahi, bhi) : i \in alo..ahi, j \in blo..bhi}))

\* Sum of the sizes of difflib's matching blocks (get_matching_blocks):
\* the longest block m, then the blocks left and right of it.
RECURSIVE MatchingSize(_, _, _, _, _, _)
RECURSIVE BlocksAround(_, _, _, _, _, _, _)
BlocksAround(a, b, alo, ahi, blo, bhi, m) ==
    IF m[3] = 0 THEN 0
    ELSE m[3]
         + MatchingSize(a, b, alo, m[1] - 1, blo, m[2] - 1)
         + MatchingSize(a, b, m[1] + m[3], ahi, m[2] + m[3], bhi)

MatchingSize(a, b, alo, ahi, blo, bhi) ==
    IF alo > ahi \/ blo > bhi THEN 0
    ELSE BlocksAround(a, b, alo, ahi, blo, bhi,
                      FindLongestMatch(a, b, alo, ahi, blo, bhi))

\* SequenceMatcher(None, qn, cn).ratio() = 2*M / (len(qn)+len(cn)), kept as
\* the exact fraction <<numerator, denominator>>.
Ratio(qn, cn) ==
    IF qn = <<>> \/ cn = <<>> THEN <<0, 1>>
    ELSE <<2 * MatchingSize(qn, cn, 1, Len(qn), 1, Len(cn)), Len(qn) + Len(cn)>>

\* _score
score(query, candidate) == Ratio(normalize(query), normalize(candidate))

\* Comparison of two fractions with positive denominators.
FracGE(x, y) == x[1] * y[2] >= y[1] * x[2]
FracGT(x, y) == x[1] * y[2] > y[1] * x[2]

FracMax(x, y) == IF FracGE(x, y) THEN x ELSE y

\* RECIPIENT_MATCH_THRESHOLD default "0.7", as the fraction 7/10
ThresholdNum == 7
ThresholdDen == 10

\* The file named by CONTACTS_FILE_PATH.  kind "absent": no such file;
\* kind "list": a JSON list whose rows are the records in rows.
AbsentFile == [kind |-> "absent", rows |-> <<>>]
ListFile(rows) == [kind |-> "list", rows |-> rows]

\* One row as _load_json_contacts reads it: fields stripped.
RowContact(row) ==
    [first_name |-> Strip(row.first_name), last_name |-> Strip(row.last_name),
     email |-> Strip(row.email), phone |-> Strip(row.phone)]

\* load_contacts / _load_json_contacts: rows with a name and a valid e-mail.
load_contacts(file) ==
    IF file.kind # "list" THEN <<>>
    ELSE SelectSeq([i \in DOMAIN file.rows |-> RowContact(file.rows[i])],
                   LAMBDA c : (c.first_name # <<>> \/ c.last_name # <<>>)
                              /\ is_valid_email(c.email))

\* The four fields search_contacts compares the normalized query with.
ExactFields(c) ==
    {normalize(c.first_name), normalize(c.last_name),
     normalize(ContactName(c)), normalize(LocalPart(c.email))}

\* max(_score(query, name), _score(query, first), _score(query, last),
\*     _score(query, local_part))
ContactScore(query, c) ==
    LET scores == {score(query, field) :
                      field \in {ContactName(c), c.first_name, c.last_name,
                                 LocalPart(c.email)}}
    IN  CHOOSE x \in scores : \A y \in scores : FracGE(x, y)

\* ranked.sort(key=score, reverse=True): descending, stable.
RECURSIVE SortRanked(_)
SortRanked(ranked) ==
    IF ranked = <<>> THEN <<>>
    ELSE LET i == CHOOSE x \in DOMAIN ranked :
                    /\ \A y \in DOMAIN ranked : FracGE(ranked[x][1], ranked[y][1])
                    /\ \A y \in 1..(x - 1) : FracGT(ranked[x][1], ranked[y][1])
         IN  <<ranked[i]>>
             \o SortRanked([k \in 1..(Len(ranked) - 1) |->
                               IF k < i THEN ranked[k] ELSE ranked[k + 1]])

\* The contacts whose score reaches the threshold, best first.
Ranked(query, contacts) ==
    SortRanked(SelectSeq([i \in DOMAIN contacts |->
                             <<ContactScore(query, contacts[i]), contacts[i]>>],
                         LAMBDA p : FracGE(p[1], <<ThresholdNum, ThresholdDen>>)))

\* [item[1] for item in ranked]
Contacts(sorted) == [i \in DOMAIN sorted |-> sorted[i][2]]

\* The body of search_contacts without the exact-match shortcut.
SearchAmongRanked(query, normalized_query, contacts, exact_matches) ==
    IF normalized_query = <<>> THEN <<>>
    ELSE Contacts(Ranked(query, contacts))

\* The body of search_contacts once the query is normalized and the
\* contacts are loaded: exact matches if any, else the ranked ones.
SearchAmong(query, normalized_query, contacts, exact_matches) ==
    IF normalized_query = <<>> THEN <<>>
    ELSE IF exact_matches # <<>> THEN exact_matches
    ELSE Contacts(Ranked(query, contacts))

ExactMatches(normalized_query, contacts) ==
    SelectSeq(contacts, LAMBDA c : normalized_query \in ExactFields(c))

SearchLoaded(query, normalized_query, contacts) ==
    SearchAmong(query, normalized_query, contacts,
                ExactMatches(normalized_query, contacts))

\* search_contacts(query), reading the directory file.
search_contacts_direct(file, query) ==
    SearchLoaded(query, normalize(query), load_contacts(file))

\* _save_contact_json comparing addresses as they are written.
save_contact_json_exact(file, first_name, last_name, email, phone) ==
    LET rows == IF file.kind = "list" THEN file.rows ELSE <<>>
        row == [first_name |-> first_name, last_name |-> last_name,
                email |-> email, phone |-> phone]
        hits == {i \in DOMAIN rows : Strip(rows[i].email) = email}
    IN  IF hits # {}
        THEN LET i == CHOOSE x \in hits : \A y \in hits : x <= y
             IN  ListFile([rows EXCEPT ![i] = row])
        ELSE ListFile(Append(rows, row))

\* _save_contact_json: upsert by case-insensitive e-mail, else append, then
\* rewrite the whole file.
save_contact_json(file, first_name, last_name, email, phone) ==
    LET rows == IF file.kind = "list" THEN file.rows ELSE <<>>
        row == [first_name |-> first_name, last_name |-> last_name,
                email |-> email, phone |-> phone]
        hits == {i \in DOMAIN rows : Lower(Strip(rows[i].email)) = Lower(email)}
    IN  IF hits # {}
        THEN LET i == CHOOSE x \in hits : \A y \in hits : x <= y
             IN  ListFile([rows EXCEPT ![i] = row])
        ELSE ListFile(Append(rows, row))

\* SaveStripped that checks the name and not the address.
SaveStrippedAnyMail(file, first, last, mail, phone_value) ==
    IF Strip(first \o <<" ">> \o last) = <<>>
    THEN [ok |-> FALSE, file |-> file,
          saved |-> [first_name |-> first, last_name |-> last, email |-> mail,
                     phone |-> phone_value]]
    ELSE [ok |-> TRUE,
          file |-> save_contact_json(file, first, last, mail, phone_value),
          saved |-> [first_name |-> first, last_name |-> last, email |-> mail,
                     phone |-> phone_value]]

\* save_contact on the stripped values: [ok, file, saved]; ok = FALSE is
\* the ValueError raised before storage is touched.
SaveStripped(file, first, last, mail, phone_value) ==
    IF Strip(first \o <<" ">> \o last) = <<>> \/ ~is_valid_email(mail)
    THEN [ok |-> FALSE, file |-> file,
          saved |-> [first_name |-> first, last_name |-> last, email |-> mail,
                     phone |-> phone_value]]
    ELSE [ok |-> TRUE,
          file |-> save_contact_json(file, first, last, mail, phone_value),
          saved |-> [first_name |-> first, last_name |-> last, email |-> mail,
                     phone |-> phone_value]]

\* save_contact
save_contact(file, first_name, last_name, email, phone) ==
    SaveStripped(file, Strip(first_name), Strip(last_name), Strip(email), Strip(phone))

(***************************************************************************)
(* graph/nodes.py: _parse_contact_details                                  *)
(***************************************************************************)
LabelWords ==
    {<<"f","n","a","m","e">>,
     <<"l","n","a","m","e">>,
     <<"e","m","a","i","l">>,
     <<"m","a","i","l">>,
     <<"p","h","o","n","e">>,
     <<"p","h","n","o">>,
     <<"n","u","m","b","e","r">>,
     <<"m","o","b","i","l","e">>}

\* str.upper() of one character
UpperCh(ch) ==
    IF ch \in Range(LowerAlpha)
    THEN UpperAlpha[CHOOSE i \in DOMAIN LowerAlpha : LowerAlpha[i] = ch]
    ELSE ch

IsAlpha(ch) == ch \in Range(UpperAlpha) \cup Range(LowerAlpha)

\* str.title(): a letter is upper-cased when it does not follow a letter,
\* lower-cased when it does.
Title(s) ==
    [i \in DOMAIN s |->
        IF i > 1 /\ IsAlpha(s[i - 1]) THEN LowerCh(s[i]) ELSE UpperCh(s[i])]

\* [t for t in local.replace("_", ".").replace("-", ".").split(".") if t]
RECURSIVE SplitLocal(_, _)
SplitLocal(s, cur) ==
    IF s = <<>> THEN (IF cur = <<>> THEN <<>> ELSE <<cur>>)
    ELSE IF Head(s) \in {".", "_", "-"}
         THEN (IF cur = <<>> THEN <<>> ELSE <<cur>>) \o SplitLocal(Tail(s), <<>>)
         ELSE SplitLocal(Tail(s), Append(cur, Head(s)))

\* A name the model copied from a field label is discarded.
Unlabelled(name) == IF Lower(name) \in LabelWords THEN <<>> ELSE name

\* The repair of a missing name from the k-th token of the e-mail's local
\* part: other is the other name.
RepairedName(name, other, email, k) ==
    IF /\ email # <<>>
       /\ "@" \in Range(email)
       /\ (name = <<>> \/ other = <<>>)
       /\ Len(SplitLocal(LocalPart(email), <<>>)) >= k
       /\ name = <<>>
    THEN Title(Strip(SplitLocal(LocalPart(email), <<>>)[k]))
    ELSE name

\* The result for the final field values.
ParseResult(user_text, first_name, last_name, email, phone) ==
    IF Strip(user_text) = <<>>
    THEN [ok |-> FALSE, message |-> "ask_contact_details",
          first_name |-> <<>>, last_name |-> <<>>, email |-> <<>>, phone |-> <<>>]
    ELSE [ok |-> first_name # <<>> /\ last_name # <<>> /\ email # <<>> /\ phone # <<>>,
          message |-> "details_missing",
          first_name |-> first_name, last_name |-> last_name,
          email |-> email, phone |-> phone]

\* The part after the label filter: first and last are the filtered names.
ParseFiltered(user_text, first, last, email, phone) ==
    ParseResult(user_text, RepairedName(first, last, email, 1),
                RepairedName(last, first, email, 2), email, phone)

\* _parse_contact_details(user_text): parsed is what the extraction model
\* returned (all fields <<>> for a failed call).  ok = FALSE is the
\* parse_error branch.
parse_contact_details(user_text, parsed) ==
    ParseFiltered(user_text, Unlabelled(Strip(parsed.first_name)),
                  Unlabelled(Strip(parsed.last_name)), Strip(parsed.email),
                  Strip(parsed.phone))

(***************************************************************************)
(* Inputs of a turn: the user's text and what the external models return   *)
(***************************************************************************)
tJan == <<"j","a","n">>
tRo == <<"r","o">>
tZed == <<"z","e","d">>
tKim == <<"k","i","m">>
tMail == <<"a","@","b",".","c">>
tSubject == <<"s">>
tBody == <<"b">>

InitialRows ==
    <<[first_name |-> <<"J","a","n">>, last_name |-> <<"R","o">>,
       email |-> <<"j","@","b",".","c">>, phone |-> <<"1">>],
      [first_name |-> <<"J","a","n","e">>, last_name |-> <<"R","o">>,
       email |-> <<"e","@","b",".","c">>, phone |-> <<"2">>]>>

\* Rows the directory file may hold (saves beyond it are not explored).
MaxContacts == 3

\* Latest human message: empty, blank, or some text.
UserTexts == {<<>>, <<" ">>, <<"h","i">>}

\* PendingStateRoute.action as listed in the router prompt.
RouteActions ==
    {"confirm", "cancel", "pause", "greet", "create", "provide_details",
     "alternate_recipient", "other"}

\* _route_pending_state: "other" without a model call for blank text, else
\* whatever the model answers (a failed call answers "other").
Routes(user_text) == IF Strip(user_text) = <<>> THEN {"other"} ELSE RouteActions

\* EmailDraftUpdate values the slot extractor may return.
SlotToLists ==
    {<<>>, <<tJan>>, <<tRo>>, <<tZed>>, <<tMail>>,
     <<tJan, tZed>>, <<tZed, tKim>>, <<tZed, tZed>>}

SlotUpdates ==
    [intent : {"send_email", "not_email", "unknown"}, to : SlotToLists,
     subject : {<<>>, tSubject}, body : {<<>>, tBody}]

AutofillSubjects == {<<>>, tSubject}

Polished == {[subject |-> <<>>, body |-> <<>>], [subject |-> tSubject, body |-> tBody]}

\* MeetingIntent values: no event, a complete event, an event without end.
NoMeeting ==
    [create_calendar_event |-> FALSE, title |-> <<>>, start_time |-> None,
     end_time |-> None, attendees |-> <<>>, description |-> <<>>]

MeetingIntents ==
    {NoMeeting,
     [NoMeeting EXCEPT !.create_calendar_event = TRUE, !.title = <<"m">>,
                       !.start_time = Some(9), !.end_time = Some(10)],
     [NoMeeting EXCEPT !.create_calendar_event = TRUE, !.title = <<"m">>,
                       !.start_time = Some(9)]}

\* ContactCaptureDetails values the extraction model may return.
ParsedDetails ==
    [first_name : {<<>>, <<"Z","e","d">>}, last_name : {<<>>, <<"N","g">>},
     email : {<<>>, <<"z","@","b",".","c">>}, phone : {<<>>, <<"5">>}]

\* decision.recipient_candidate (<<>>: none given, the user text is used)
Candidates == {<<>>, tMail, tJan, tKim}

\* ContactLookupIntent values
LookupIntents == [intent : {"lookup_contact", "other"}, query : {<<>>, tJan, tKim}]

\* OrchestratorOutput values of the full-request planner
PlanEvent ==
    [title |-> <<"m">>, start_time |-> 9, end_time |-> 10,
     attendees |-> <<tMail>>, description |-> <<>>]

PlanEmails ==
    {None} \cup {Some([to |-> to, subject |-> tSubject, body |-> tBody]) :
                    to \in {<<tMail>>, <<tJan>>, <<tKim>>, <<tRo>>}}

PlannerOutputs ==
    [action : {"send_email", "create_calendar_event", "both",
               "ask_for_clarification", "none"},
     email_details : PlanEmails,
     calendar_details : {None, Some(PlanEvent)}]

(***************************************************************************)
(* search_contacts, tabulated                                              *)
(***************************************************************************)
\* The details a complete contact-capture answer can carry.
CapturedDetails ==
    {p \in {parse_contact_details(<<"h","i">>, d) : d \in ParsedDetails} : p.ok}

\* The directory files the saves of CapturedDetails lead to from files.
RECURSIVE SaveClosure(_)
SaveClosure(files) ==
    LET next == files \cup
                {f2 \in {save_contact(f, p.first_name, p.last_name, p.email, p.phone).file :
                            f \in files, p \in CapturedDetails} :
                    Len(f2.rows) <= MaxContacts}
    IN  IF next = files THEN files ELSE SaveClosure(next)

KnownFiles == SaveClosure({ListFile(InitialRows)})

KnownQueries ==
    UNION {Range(l) : l \in SlotToLists} \cup Candidates \cup {tJan, tKim, tRo, <<"h","i">>}

\* search_contacts_direct on the known files and queries, computed once.
SearchIndex ==
    [f \in KnownFiles |-> [q \in KnownQueries |-> search_contacts_direct(f, q)]]

\* search_contacts(query), reading the directory file: the tabulated result
\* where there is one, else the computation itself.
search_contacts(file, query) ==
    IF file \in KnownFiles /\ query \in KnownQueries
    THEN SearchIndex[file][query]
    ELSE search_contacts_direct(file, query)

(***************************************************************************)
(* graph/nodes.py: draft merger and recipient resolver                     *)
(***************************************************************************)
PlaceholderWords ==
    {<<"p","e","r","s","o","n","_","n","a","m","e","_","o","r","_","e","m","a","i","l">>,
     <<"<","p","e","r","s","o","n","_","n","a","m","e","_","o","r","_","e","m","a","i","l",">">>,
     <<"r","e","c","i","p","i","e","n","t","_","n","a","m","e","_","o","r","_","e","m","a","i","l">>,
     <<"<","r","e","c","i","p","i","e","n","t","_","n","a","m","e","_","o","r","_","e","m","a","i","l",">">>,
     <<"r","e","c","i","p","i","e","n","t">>,
     <<"<","r","e","c","i","p","i","e","n","t",">">>}

\* _is_placeholder_recipient
is_placeholder_recipient(value) ==
    LET token == Lower(Strip(value))
    IN  \/ token = <<>>
        \/ (StartsWith(token, "<") /\ EndsWith(token, ">"))
        \/ token \in PlaceholderWords

\* [t.strip() for t in update.to
\*      if str(t).strip() and not _is_placeholder_recipient(str(t))]
CleanedTo(to) ==
    LET kept == SelectSeq(to, LAMBDA t : Strip(t) # <<>> /\ ~is_placeholder_recipient(t))
    IN  [i \in DOMAIN kept |-> Strip(kept[i])]

\* A draft is the dict email_draft: an absent key and an empty value are
\* the same to every reader (dict.get / truthiness), and no writer stores an
\* empty value, so a field is <<>> exactly when its key is absent.
EmptyDraft == [to |-> <<>>, subject |-> <<>>, body |-> <<>>]

\* _merge_email_draft without the "if cleaned_to" guard.
merge_email_draft_unguarded(existing, update) ==
    [to |-> IF update.to # <<>> THEN CleanedTo(update.to) ELSE existing.to,
     subject |-> IF update.subject # <<>> /\ Strip(update.subject) # <<>>
                 THEN Strip(update.subject) ELSE existing.subject,
     body |-> IF update.body # <<>> /\ Strip(update.body) # <<>>
              THEN Strip(update.body) ELSE existing.body]

\* _merge_email_draft.  An update field that is None is <<>> here: the code
\* tests truthiness only.
merge_email_draft(existing, update) ==
    LET cleaned_to == CleanedTo(update.to)
    IN  [to |-> IF update.to # <<>> /\ cleaned_to # <<>> THEN cleaned_to ELSE existing.to,
         subject |-> IF update.subject # <<>> /\ Strip(update.subject) # <<>>
                     THEN Strip(update.subject) ELSE existing.subject,
         body |-> IF update.body # <<>> /\ Strip(update.body) # <<>>
                  THEN Strip(update.body) ELSE existing.body]

\* f"{c.name} <{c.email}>" for c in matches[:5]
MaxOptions == 5
Options(matches) ==
    [i \in 1..Min2(Len(matches), MaxOptions) |->
        ContactName(matches[i]) \o <<" ", "<">> \o matches[i].email \o <<">">>]

\* The three shapes _resolve_recipients returns.  err is "" for None,
\* "multiple" for the disambiguation message (with its options) and
\* "no_recipient" for the provide-a-recipient message; capture_needed is
\* <<>> for None and <<query>> for {"query": query}.
ResolveOk(resolved) ==
    [resolved |-> resolved, err |-> "", options |-> <<>>, capture_needed |-> <<>>]
ResolveCapture(token) ==
    [resolved |-> <<>>, err |-> "", options |-> <<>>, capture_needed |-> <<token>>]
ResolveMultiple(matches) ==
    [resolved |-> <<>>, err |-> "multiple", options |-> Options(matches),
     capture_needed |-> <<>>]
ResolveNoRecipient ==
    [resolved |-> <<>>, err |-> "no_recipient", options |-> <<>>, capture_needed |-> <<>>]

\* The loop of _resolve_recipients over to[i..], with the addresses
\* resolved so far; ResolveToken is its body for the trimmed token to[i]
\* and ResolveMatches the part after search_contacts(token).
RECURSIVE ResolveLoop(_, _, _, _)
RECURSIVE ResolveToken(_, _, _, _, _)
RECURSIVE ResolveMatches(_, _, _, _, _, _)
\* ResolveMatches passing over a name nobody matches.
ResolveMatchesSkips(file, to, i, resolved, token, matches) ==
    IF Len(matches) = 0 THEN ResolveLoop(file, to, i + 1, resolved)
    ELSE IF Len(matches) > 1 THEN ResolveMultiple(matches)
    ELSE ResolveLoop(file, to, i + 1, Append(resolved, matches[1].email))

ResolveMatches(file, to, i, resolved, token, matches) ==
    IF Len(matches) = 0 THEN ResolveCapture(token)
    ELSE IF Len(matches) > 1 THEN ResolveMultiple(matches)
    ELSE ResolveLoop(file, to, i + 1, Append(resolved, matches[1].email))

\* ResolveToken returning as soon as it meets an address.
ResolveTokenEmailWins(file, to, i, resolved, token) ==
    IF token = <<>> THEN ResolveLoop(file, to, i + 1, resolved)
    ELSE IF is_placeholder_recipient(token)
         THEN ResolveLoop(file, to, i + 1, resolved)
    ELSE IF is_valid_email(token)
         THEN ResolveOk(Append(resolved, token))
    ELSE ResolveMatches(file, to, i, resolved, token, search_contacts(file, token))

ResolveToken(file, to, i, resolved, token) ==
    IF token = <<>> THEN ResolveLoop(file, to, i + 1, resolved)
    ELSE IF is_placeholder_recipient(token)
         THEN ResolveLoop(file, to, i + 1, resolved)
    ELSE IF is_valid_email(token)
         THEN ResolveLoop(file, to, i + 1, Append(resolved, token))
    ELSE ResolveMatches(file, to, i, resolved, token, search_contacts(file, token))

ResolveLoop(file, to, i, resolved) ==
    IF i > Len(to)
    THEN IF resolved = <<>> THEN ResolveNoRecipient ELSE ResolveOk(resolved)
    ELSE ResolveToken(file, to, i, resolved, Strip(to[i]))

\* _resolve_recipients(email_details) on email_details.to
resolve_recipients(file, to) == ResolveLoop(file, to, 1, <<>>)

(***************************************************************************)
(* graph/nodes.py: the email flow                                          *)
(***************************************************************************)
\* A returned update dict: a key the dict does not hold is Keep, a key it
\* holds is Set(value).
Keep == <<>>
Set(v) == <<v>>
Upd(u, old) == IF u = Keep THEN old ELSE u[1]

NoUpdate ==
    [email_draft |-> Keep, pending_contact_capture |-> Keep, staged_tasks |-> Keep,
     pending_tasks |-> Keep, email_details |-> Keep, calendar_details |-> Keep,
     awaiting_confirmation |-> Keep, messages |-> <<>>]

\* _autofill_email_draft: gen_subject is the subject the autofill model
\* returned (<<>> for null or a failed call).
autofill_email_draft(draft, gen_subject) ==
    IF draft.subject # <<>> THEN draft
    ELSE IF Strip(gen_subject) # <<>> THEN [draft EXCEPT !.subject = Strip(gen_subject)]
    ELSE draft

\* _polish_email_draft: polished is what the model returned (both fields
\* <<>> for a failed call).
polish_email_draft(draft, polished) ==
    [draft EXCEPT
        !.subject = IF Strip(polished.subject) # <<>> THEN Strip(polished.subject) ELSE @,
        !.body = IF Strip(polished.body) # <<>> THEN Strip(polished.body) ELSE @]

\* The early recipient validation loop of _build_email_flow_response over
\* recipients[i..]: the first name with zero or several matches, if any.
\* EarlyToken is its body for the trimmed token recipients[i] and
\* EarlyMatches the part after search_contacts(token).
RECURSIVE EarlyValidation(_, _, _)
RECURSIVE EarlyToken(_, _, _, _)
RECURSIVE EarlyMatches(_, _, _, _, _)
EarlyMatches(file, recipients, i, token, matches) ==
    IF Len(matches) = 0 THEN [kind |-> "capture", token |-> token]
    ELSE IF Len(matches) > 1 THEN [kind |-> "multiple", token |-> token]
    ELSE EarlyValidation(file, recipients, i + 1)

EarlyToken(file, recipients, i, token) ==
    IF token = <<>> \/ is_valid_email(token)
    THEN EarlyValidation(file, recipients, i + 1)
    ELSE EarlyMatches(file, recipients, i, token, search_contacts(file, token))

EarlyValidation(file, recipients, i) ==
    IF i > Len(recipients) THEN [kind |-> "ok", token |-> <<>>]
    ELSE EarlyToken(file, recipients, i, Strip(recipients[i]))

\* [k for k in ("to", "subject", "body") if not merged.get(k)]
Missing(merged) ==
    {k \in {"to", "subject", "body"} : merged[k] = <<>>}

NewCapture(q) == [query |-> q, awaiting_create_confirmation |-> TRUE, source |-> "none"]

\* The calendar action synthesized from the meeting intent.
MeetingAccepted(meeting) ==
    /\ meeting.create_calendar_event
    /\ meeting.title # <<>>
    /\ meeting.start_time # None
    /\ meeting.end_time # None

MeetingEvent(meeting, final_email) ==
    [title |-> meeting.title,
     start_time |-> meeting.start_time[1],
     end_time |-> meeting.end_time[1],
     attendees |-> IF meeting.attendees # <<>> THEN meeting.attendees ELSE final_email.to,
     description |-> IF meeting.description # <<>> THEN meeting.description
                     ELSE final_email.body]

\* StageEmail that hands the e-mail on for dispatch as it stages it.
StageEmailPending(meeting, final_email) ==
    [email_draft |-> Set(EmptyDraft),
     pending_contact_capture |-> Set(None),
     email_details |-> Set(Some(final_email)),
     staged_tasks |-> Set(IF MeetingAccepted(meeting)
                          THEN <<"email", "calendar">> ELSE <<"email">>),
     pending_tasks |-> Set(<<"email">>),
     awaiting_confirmation |-> Set(TRUE),
     calendar_details |-> IF MeetingAccepted(meeting)
                          THEN Set(Some(MeetingEvent(meeting, final_email)))
                          ELSE Keep,
     messages |-> <<"summary">>]

\* The tail of _build_email_flow_response: recipients resolved to
\* final_email, the confirmation summary is staged.
StageEmail(meeting, final_email) ==
    [email_draft |-> Set(EmptyDraft),
     pending_contact_capture |-> Set(None),
     email_details |-> Set(Some(final_email)),
     staged_tasks |-> Set(IF MeetingAccepted(meeting)
                          THEN <<"email", "calendar">> ELSE <<"email">>),
     pending_tasks |-> Set(<<>>),
     awaiting_confirmation |-> Set(TRUE),
     calendar_details |-> IF MeetingAccepted(meeting)
                          THEN Set(Some(MeetingEvent(meeting, final_email)))
                          ELSE Keep,
     messages |-> <<"summary">>]

\* The part of _build_email_flow_response after _resolve_recipients
\* returned res for the polished draft.
AfterResolve(draft, meeting, res) ==
    IF res.capture_needed # <<>>
    THEN [NoUpdate EXCEPT
            !.email_draft = Set(draft),
            !.pending_contact_capture =
                Set(Some(NewCapture(Strip(res.capture_needed[1])))),
            !.staged_tasks = Set(<<>>),
            !.pending_tasks = Set(<<>>),
            !.messages = <<"recipient_not_found">>]
    ELSE IF res.err # ""
    THEN [NoUpdate EXCEPT
            !.email_draft = Set(draft),
            !.staged_tasks = Set(<<>>),
            !.pending_tasks = Set(<<>>),
            !.messages = <<res.err>>]
    ELSE StageEmail(meeting, [to |-> res.resolved, subject |-> draft.subject,
                              body |-> draft.body])

\* The part after _polish_email_draft returned draft.
AfterPolish(file, draft, meeting) ==
    AfterResolve(draft, meeting, resolve_recipients(file, draft.to))

\* The part after the early validation loop ended with early.
AfterEarly(file, merged, polished, meeting, early) ==
    IF early.kind = "capture"
    THEN [NoUpdate EXCEPT
            !.email_draft = Set(merged),
            !.pending_contact_capture = Set(Some(NewCapture(early.token))),
            !.staged_tasks = Set(<<>>),
            !.pending_tasks = Set(<<>>),
            !.messages = <<"recipient_not_found">>]
    ELSE IF early.kind = "multiple"
    THEN [NoUpdate EXCEPT
            !.email_draft = Set(merged),
            !.pending_tasks = Set(<<>>),
            !.messages = <<"multiple_matches">>]
    ELSE IF Missing(merged) # {}
    THEN [NoUpdate EXCEPT
            !.email_draft = Set(merged),
            !.pending_tasks = Set(<<>>),
            !.messages = <<"collecting">>]
    ELSE AfterPolish(file, polish_email_draft(merged, polished), meeting)

\* _build_email_flow_response(state, merged), reading the directory file;
\* polished and meeting are what the polish and meeting-intent models return.
build_email_flow_response(file, merged, polished, meeting) ==
    AfterEarly(file, merged, polished, meeting, EarlyValidation(file, merged.to, 1))

(***************************************************************************)
(* graph/nodes.py: contact capture                                         *)
(***************************************************************************)
\* The replacement loop of _handle_contact_capture_details: the first
\* recipient equal to the query (trimmed, lower-cased) becomes the saved
\* address; with none, it is appended.
RECURSIVE ReplaceFirst(_, _, _)
ReplaceFirst(recipients, query, email) ==
    IF recipients = <<>> THEN <<>>
    ELSE IF Lower(Strip(Head(recipients))) = query
         THEN <<email>> \o Tail(recipients)
         ELSE <<Head(recipients)>> \o ReplaceFirst(Tail(recipients), query, email)

\* ReplaceRecipient putting the address in place of every matching token.
ReplaceRecipientAll(recipients, query, email) ==
    IF \E i \in DOMAIN recipients : Lower(Strip(recipients[i])) = query
    THEN [i \in DOMAIN recipients |->
             IF Lower(Strip(recipients[i])) = query THEN email ELSE recipients[i]]
    ELSE Append(recipients, email)

ReplaceRecipient(recipients, query, email) ==
    IF \E i \in DOMAIN recipients : Lower(Strip(recipients[i])) = query
    THEN ReplaceFirst(recipients, query, email)
    ELSE Append(recipients, email)

\* The end of _handle_contact_capture_details: response is what
\* _build_email_flow_response returned for the repaired draft.
CaptureResponse(response) ==
    [response EXCEPT
        !.messages = <<"contact_saved">> \o response.messages,
        !.pending_contact_capture = Set(None)]

\* AfterSave that resumes the email flow whatever the capture's source.
AfterSaveResumes(file, draft, capture, polished, meeting, s) ==
    IF ~s.ok
    THEN [file |-> file,
          u |-> [NoUpdate EXCEPT !.pending_tasks = Set(<<>>),
                                 !.messages = <<"save_failed">>]]
    ELSE [file |-> s.file,
          u |-> CaptureResponse(
                    build_email_flow_response(
                        s.file,
                        [draft EXCEPT
                            !.to = ReplaceRecipient(draft.to, Lower(Strip(capture.query)),
                                                    s.saved.email)],
                        polished, meeting))]

\* The part after save_contact returned s.
AfterSave(file, draft, capture, polished, meeting, s) ==
    IF ~s.ok
    THEN [file |-> file,
          u |-> [NoUpdate EXCEPT !.pending_tasks = Set(<<>>),
                                 !.messages = <<"save_failed">>]]
    ELSE IF capture.source = "lookup_only"
    THEN [file |-> s.file,
          u |-> [NoUpdate EXCEPT !.pending_tasks = Set(<<>>),
                                 !.pending_contact_capture = Set(None),
                                 !.messages = <<"contact_saved_details">>]]
    ELSE [file |-> s.file,
          u |-> CaptureResponse(
                    build_email_flow_response(
                        s.file,
                        [draft EXCEPT
                            !.to = ReplaceRecipient(draft.to, Lower(Strip(capture.query)),
                                                    s.saved.email)],
                        polished, meeting))]

\* The part after _parse_contact_details returned p.
AfterParse(file, draft, capture, polished, meeting, p) ==
    IF ~p.ok
    THEN [file |-> file,
          u |-> [NoUpdate EXCEPT !.pending_tasks = Set(<<>>),
                                 !.messages = <<p.message>>]]
    ELSE AfterSave(file, draft, capture, polished, meeting,
                   save_contact(file, p.first_name, p.last_name, p.email, p.phone))

\* _handle_contact_capture_details(state, capture, user_message): the
\* update dict and the directory file it leaves.
handle_contact_capture_details(file, draft, capture, user_message, parsed, polished, meeting) ==
    AfterParse(file, draft, capture, polished, meeting,
               parse_contact_details(user_message, parsed))

\* The answer of _lookup_contact_details for the trimmed query q and the
\* contacts found for it.
LookupAnswer(q, contacts) ==
    IF q = <<>> THEN [message |-> "lookup_ask_who", found |-> TRUE]
    ELSE IF contacts = <<>> THEN [message |-> "lookup_not_found", found |-> FALSE]
    ELSE IF Len(contacts) > 1 THEN [message |-> "lookup_multiple", found |-> TRUE]
    ELSE [message |-> "lookup_details", found |-> TRUE]

LookupTrimmed(file, q) ==
    LookupAnswer(q, IF is_valid_email(q)
                    THEN SelectSeq(load_contacts(file), LAMBDA c : Lower(c.email) = Lower(q))
                    ELSE search_contacts(file, q))

\* _lookup_contact_details(query): [message, found]
lookup_contact_details(file, query) == LookupTrimmed(file, Strip(query))

(***************************************************************************)
(* graph/state.py: the thread's GraphState, the directory file, and the    *)
(* position in the graph of graph/builder.py                               *)
(***************************************************************************)
VARIABLES
    pc,                       \* "idle" between turns, else the node to run next
    awaiting_confirmation,
    staged_tasks,
    pending_tasks,
    email_details,
    calendar_details,
    email_draft,
    pending_contact_capture,
    final_response,           \* where the turn's reply came from
    turn_messages,            \* AIMessages appended during the current turn
    old_ai_message,           \* an AIMessage of an earlier turn exists
    contacts_file,
    turn,                     \* what the orchestrator saw and decided this turn
    dispatched,               \* provider calls made during the current turn
    turns,                    \* human messages the thread has received
    call                      \* the latest call of a helper exercised on its own

vars ==
    <<pc, awaiting_confirmation, staged_tasks, pending_tasks, email_details,
      calendar_details, email_draft, pending_contact_capture, final_response,
      turn_messages, old_ai_message, contacts_file, turn, dispatched, turns,
      call>>

\* Human messages explored per thread.
MaxTurns == 4

\* No helper has been called on its own.
NoCall == [fn |-> "none"]

\* A new thread, but for its draft and the directory beside it: nothing
\* staged, nothing pending, no reply yet.
NewThread ==
    /\ pc = "idle"
    /\ awaiting_confirmation = FALSE
    /\ staged_tasks = <<>>
    /\ pending_tasks = <<>>
    /\ email_details = None
    /\ calendar_details = None
    /\ pending_contact_capture = None
    /\ final_response = "none"
    /\ turn_messages = <<>>
    /\ old_ai_message = FALSE
    /\ turn = [mode |-> "none", branch |-> "none", gate |-> FALSE]
    /\ dispatched = <<>>
    /\ turns = 0

Init ==
    /\ NewThread
    /\ email_draft = EmptyDraft
    /\ contacts_file = ListFile(InitialRows)
    /\ call = NoCall

\* graph.invoke with one more HumanMessage, the graph being at rest.
TurnStarts == pc = "idle" /\ turns < MaxTurns

\* decide_after_orchestrator looking for the calendar task first.
decide_calendar_first(tasks) ==
    IF "calendar" \in Range(tasks) THEN "create_calendar_event"
    ELSE IF "email" \in Range(tasks) THEN "send_email"
    ELSE "final_response"

\* decide_after_orchestrator
decide_after_orchestrator(tasks) ==
    IF "email" \in Range(tasks) THEN "send_email"
    ELSE IF "calendar" \in Range(tasks) THEN "create_calendar_event"
    ELSE "final_response"

\* after_email without its calendar edge.
after_email_ends(tasks) == "final_response"

\* after_email that goes back to the send node when no event is pending.
after_email_again(tasks) ==
    IF "calendar" \in Range(tasks) THEN "create_calendar_event" ELSE "send_email"

\* after_email
after_email(tasks) ==
    IF "calendar" \in Range(tasks) THEN "create_calendar_event" ELSE "final_response"

\* The orchestrator node returns update dict u (and leaves the directory
\* file as file); LangGraph merges it into the state and routes on.
Commit(mode, branch, u, file) ==
    /\ awaiting_confirmation' = Upd(u.awaiting_confirmation, awaiting_confirmation)
    /\ staged_tasks' = Upd(u.staged_tasks, staged_tasks)
    /\ pending_tasks' = Upd(u.pending_tasks, pending_tasks)
    /\ email_details' = Upd(u.email_details, email_details)
    /\ calendar_details' = Upd(u.calendar_details, calendar_details)
    /\ email_draft' = Upd(u.email_draft, email_draft)
    /\ pending_contact_capture' = Upd(u.pending_contact_capture, pending_contact_capture)
    /\ turn_messages' = u.messages
    /\ old_ai_message' = (old_ai_message \/ turn_messages # <<>>)
    /\ contacts_file' = file
    /\ turn' = [mode |-> mode, branch |-> branch, gate |-> awaiting_confirmation]
    /\ dispatched' = <<>>
    /\ turns' = turns + 1
    /\ pc' = decide_after_orchestrator(Upd(u.pending_tasks, pending_tasks))
    /\ UNCHANGED <<final_response, call>>

(***************************************************************************)
(* orchestrator_node: no text, and the confirmation gate                   *)
(***************************************************************************)
\* Some non-empty user text is classified as decision by the router.
Classified(decision) ==
    {user_message \in UserTexts \ {<<>>} : decision \in Routes(user_message)} # {}

OrchEmpty ==
    /\ TurnStarts
    /\ Commit("empty", "empty",
              [NoUpdate EXCEPT !.pending_tasks = Set(<<>>),
                               !.messages = <<"empty_prompt">>],
              contacts_file)

GateConfirm ==
    /\ TurnStarts
    /\ awaiting_confirmation
    /\ Classified("confirm")
    /\ Commit("gate", "confirm",
              [NoUpdate EXCEPT !.awaiting_confirmation = Set(FALSE),
                               !.pending_tasks = Set(staged_tasks)],
              contacts_file)

\* GateCancel without staged_tasks: [].
GateCancelKeepsStaged ==
    /\ TurnStarts
    /\ awaiting_confirmation
    /\ Classified("cancel")
    /\ Commit("gate", "cancel",
              [NoUpdate EXCEPT !.awaiting_confirmation = Set(FALSE),
                               !.pending_tasks = Set(<<>>),
                               !.messages = <<"cancelled">>],
              contacts_file)

GateCancel ==
    /\ TurnStarts
    /\ awaiting_confirmation
    /\ Classified("cancel")
    /\ Commit("gate", "cancel",
              [NoUpdate EXCEPT !.awaiting_confirmation = Set(FALSE),
                               !.staged_tasks = Set(<<>>),
                               !.pending_tasks = Set(<<>>),
                               !.messages = <<"cancelled">>],
              contacts_file)

\* GatePause with the staged tasks queued for execution.
GatePauseRuns ==
    /\ TurnStarts
    /\ awaiting_confirmation
    /\ Classified("pause")
    /\ Commit("gate", "pause",
              [NoUpdate EXCEPT !.pending_tasks = Set(staged_tasks),
                               !.messages = <<"remind_confirm">>],
              contacts_file)

GatePause ==
    /\ TurnStarts
    /\ awaiting_confirmation
    /\ Classified("pause")
    /\ Commit("gate", "pause",
              [NoUpdate EXCEPT !.pending_tasks = Set(<<>>),
                               !.messages = <<"remind_confirm">>],
              contacts_file)

\* GateOther closing the gate as cancel does.
GateOtherCloses ==
    /\ TurnStarts
    /\ awaiting_confirmation
    /\ {decision \in RouteActions \ {"confirm", "cancel", "pause"} :
            Classified(decision)} # {}
    /\ Commit("gate", "other",
              [NoUpdate EXCEPT !.awaiting_confirmation = Set(FALSE),
                               !.pending_tasks = Set(<<>>),
                               !.messages = <<"ask_confirm_or_cancel">>],
              contacts_file)

GateOther ==
    /\ TurnStarts
    /\ awaiting_confirmation
    /\ {decision \in RouteActions \ {"confirm", "cancel", "pause"} :
            Classified(decision)} # {}
    /\ Commit("gate", "other",
              [NoUpdate EXCEPT !.pending_tasks = Set(<<>>),
                               !.messages = <<"ask_confirm_or_cancel">>],
              contacts_file)

(***************************************************************************)
(* orchestrator_node: the contact-capture sub-flow                         *)
(***************************************************************************)
Capture == pending_contact_capture[1]

CaptureActive == ~awaiting_confirmation /\ pending_contact_capture # None

\* candidate = (decision.recipient_candidate or user_message).strip()
Candidate(recipient_candidate, user_message) ==
    Strip(IF recipient_candidate # <<>> THEN recipient_candidate ELSE user_message)

\* The alternate_recipient branch returns: a usable alternate was given.
AlternateResolves(file, capture, decision, candidate) ==
    /\ capture.source # "lookup_only"
    /\ decision = "alternate_recipient"
    /\ candidate # <<>>
    /\ (is_valid_email(candidate) \/ Len(search_contacts(file, candidate)) = 1)

\* The alternate put into the draft as it was typed.
AlternateAsTyped(file, candidate) == candidate

AlternateAddress(file, candidate) ==
    IF is_valid_email(candidate) THEN candidate
    ELSE search_contacts(file, candidate)[1].email

\* No branch of the awaiting_create_confirmation block returned: the turn
\* falls through to the conversational routing below it.
FallsThrough(file, capture, decision, candidate) ==
    /\ capture.awaiting_create_confirmation
    /\ decision \notin {"provide_details", "create", "cancel", "pause"}
    /\ ~AlternateResolves(file, capture, decision, candidate)

CaptureProvideDetails ==
    /\ TurnStarts
    /\ CaptureActive
    /\ Capture.awaiting_create_confirmation
    /\ \E r \in {handle_contact_capture_details(
                     contacts_file, email_draft,
                     [Capture EXCEPT !.awaiting_create_confirmation = FALSE],
                     user_message, parsed, polished, meeting) :
                     user_message \in {m \in UserTexts \ {<<>>} :
                                          "provide_details" \in Routes(m)},
                     parsed \in ParsedDetails, polished \in Polished,
                     meeting \in MeetingIntents} :
          /\ Len(r.file.rows) <= MaxContacts
          /\ Commit("capture", "provide_details", r.u, r.file)

CaptureCreate ==
    /\ TurnStarts
    /\ CaptureActive
    /\ Capture.awaiting_create_confirmation
    /\ Classified("create")
    /\ Commit("capture", "create",
              [NoUpdate EXCEPT
                  !.pending_tasks = Set(<<>>),
                  !.pending_contact_capture =
                      Set(Some([query |-> Strip(Capture.query),
                                awaiting_create_confirmation |-> FALSE,
                                source |-> Capture.source])),
                  !.messages = <<"ask_contact_details">>],
              contacts_file)

CaptureCancel ==
    /\ TurnStarts
    /\ CaptureActive
    /\ Capture.awaiting_create_confirmation
    /\ Classified("cancel")
    /\ Commit("capture", "cancel",
              [NoUpdate EXCEPT !.pending_tasks = Set(<<>>),
                               !.staged_tasks = Set(<<>>),
                               !.pending_contact_capture = Set(None),
                               !.messages = <<"declined_contact">>],
              contacts_file)

\* The candidates an alternate_recipient decision can carry that make the
\* branch return.
AlternateCandidates ==
    {candidate \in {Candidate(recipient_candidate, user_message) :
                       user_message \in {m \in UserTexts \ {<<>>} :
                                            "alternate_recipient" \in Routes(m)},
                       recipient_candidate \in Candidates} :
        AlternateResolves(contacts_file, Capture, "alternate_recipient", candidate)}

\* response after response["pending_contact_capture"] = {}
AlternateResponse(response) == [response EXCEPT !.pending_contact_capture = Set(None)]

CaptureAlternate ==
    /\ TurnStarts
    /\ CaptureActive
    /\ Capture.awaiting_create_confirmation
    /\ \E u \in {AlternateResponse(
                     build_email_flow_response(
                         contacts_file,
                         [email_draft EXCEPT
                             !.to = <<AlternateAddress(contacts_file, candidate)>>],
                         polished, meeting)) :
                     candidate \in AlternateCandidates, polished \in Polished,
                     meeting \in MeetingIntents} :
          Commit("capture", "alternate_recipient", u, contacts_file)

CapturePause ==
    /\ TurnStarts
    /\ CaptureActive
    /\ Capture.awaiting_create_confirmation
    /\ Classified("pause")
    /\ Commit("capture", "pause",
              [NoUpdate EXCEPT !.pending_tasks = Set(<<>>),
                               !.staged_tasks = Set(<<>>),
                               !.pending_contact_capture = Set(None),
                               !.messages = <<"paused_contact">>],
              contacts_file)

\* Not awaiting_create_confirmation: the text is contact detail input.
CaptureDetails ==
    /\ TurnStarts
    /\ CaptureActive
    /\ ~Capture.awaiting_create_confirmation
    /\ \E r \in {handle_contact_capture_details(contacts_file, email_draft, Capture,
                                                user_message, parsed, polished, meeting) :
                     user_message \in UserTexts \ {<<>>}, parsed \in ParsedDetails,
                     polished \in Polished, meeting \in MeetingIntents} :
          /\ Len(r.file.rows) <= MaxContacts
          /\ Commit("capture", "details", r.u, r.file)

(***************************************************************************)
(* orchestrator_node: conversational routing, slot filling, lookup and     *)
(* the full-request planner                                                *)
(***************************************************************************)
\* "normal": no capture is pending; "capture_other": the capture block is
\* entered and falls through to the routing below it.
Mode == IF pending_contact_capture = None THEN "normal" ELSE "capture_other"

\* The turn with text user_message reaches the routing below the capture
\* block.
Reaches(user_message) ==
    /\ ~awaiting_confirmation
    /\ IF pending_contact_capture = None THEN TRUE
       ELSE \E decision \in Routes(user_message), recipient_candidate \in Candidates :
               FallsThrough(contacts_file, Capture, decision,
                            Candidate(recipient_candidate, user_message))

RouteGreet ==
    /\ TurnStarts
    /\ {user_message \in UserTexts \ {<<>>} :
            Reaches(user_message) /\ "greet" \in Routes(user_message)} # {}
    /\ Commit(Mode, "greet",
              [NoUpdate EXCEPT !.pending_tasks = Set(<<>>),
                               !.pending_contact_capture = Set(None),
                               !.messages = <<"greeting">>],
              contacts_file)

\* The email flow entered on the slot intent alone.
EmailFlowOnIntent(slot_update) == slot_update.intent = "send_email"

\* if slot_update.intent == "send_email" or existing_draft
EmailFlowTaken(slot_update) ==
    slot_update.intent = "send_email" \/ email_draft # EmptyDraft

\* merged after _merge_email_draft and _autofill_email_draft, for every
\* slot update that takes the email flow and every autofill answer.
MergedDrafts ==
    {autofill_email_draft(merge_email_draft(email_draft, slot_update), gen_subject) :
        slot_update \in {x \in SlotUpdates : EmailFlowTaken(x)},
        gen_subject \in AutofillSubjects}

RouteEmailFlow ==
    /\ TurnStarts
    /\ {user_message \in UserTexts \ {<<>>} : Reaches(user_message)} # {}
    /\ \E u \in {build_email_flow_response(contacts_file, merged, polished, meeting) :
                    merged \in MergedDrafts, polished \in Polished,
                    meeting \in MeetingIntents} :
          Commit(Mode, "email_flow", u, contacts_file)

\* The update dict of the lookup branch: r is what _lookup_contact_details
\* returned for query.
LookupUpdates(query, r) ==
    IF ~r.found /\ query # <<>>
    THEN [NoUpdate EXCEPT
            !.pending_tasks = Set(<<>>),
            !.pending_contact_capture =
                Set(Some([query |-> query,
                          awaiting_create_confirmation |-> TRUE,
                          source |-> "lookup_only"])),
            !.messages = <<"lookup_not_found_offer">>]
    ELSE [NoUpdate EXCEPT !.pending_tasks = Set(<<>>),
                          !.messages = <<r.message>>]

\* query = (lookup.query or "").strip()
LookupQuery(file, query) == LookupUpdates(query, lookup_contact_details(file, query))

RouteLookup ==
    /\ TurnStarts
    /\ {user_message \in UserTexts \ {<<>>} : Reaches(user_message)} # {}
    /\ {slot_update \in SlotUpdates : ~EmailFlowTaken(slot_update)} # {}
    /\ \E u \in {LookupQuery(contacts_file, Strip(lookup.query)) :
                    lookup \in {l \in LookupIntents : l.intent = "lookup_contact"}} :
          Commit(Mode, "lookup", u, contacts_file)

\* The planner's tasks: pending_tasks of lines 773-777.
PlanTasks(plan) ==
    (IF plan.action \in {"send_email", "both"} /\ plan.email_details # None
     THEN <<"email">> ELSE <<>>)
    \o (IF plan.action \in {"create_calendar_event", "both"} /\ plan.calendar_details # None
        THEN <<"calendar">> ELSE <<>>)

\* The updates dict without "staged_tasks": pending_tasks.
PlanUpdatesKeepStaged(plan) ==
    [email_draft |-> Set(EmptyDraft),
     pending_contact_capture |-> Keep,
     staged_tasks |-> Keep,
     pending_tasks |-> Set(<<>>),
     email_details |-> Set(plan.email_details),
     calendar_details |-> Set(plan.calendar_details),
     awaiting_confirmation |-> Set(FALSE),
     messages |-> <<>>]

\* The updates dict of lines 779-785, before the action is looked at.
PlanUpdates(plan) ==
    [email_draft |-> Set(EmptyDraft),
     pending_contact_capture |-> Keep,
     staged_tasks |-> Set(PlanTasks(plan)),
     pending_tasks |-> Set(<<>>),
     email_details |-> Set(plan.email_details),
     calendar_details |-> Set(plan.calendar_details),
     awaiting_confirmation |-> Set(FALSE),
     messages |-> <<>>]

\* The capture branch suspending the planner's e-mail as the draft.
PlanResolvedSuspends(plan, updates, res) ==
    IF res.capture_needed # <<>>
    THEN [updates EXCEPT
            !.email_draft = Set(plan.email_details[1]),
            !.pending_contact_capture =
                Set(Some(NewCapture(Strip(res.capture_needed[1])))),
            !.staged_tasks = Set(<<>>),
            !.messages = <<"recipient_not_found">>]
    ELSE IF res.err # ""
    THEN [updates EXCEPT !.staged_tasks = Set(<<>>), !.messages = <<res.err>>]
    ELSE [updates EXCEPT
            !.email_details = Set(Some([plan.email_details[1] EXCEPT !.to = res.resolved])),
            !.awaiting_confirmation = Set(TRUE),
            !.messages = <<"summary">>]

\* The "email" in pending_tasks block: res is what _resolve_recipients
\* returned for plan.email_details, and the summary follows it.
PlanResolved(plan, updates, res) ==
    IF res.capture_needed # <<>>
    THEN [updates EXCEPT
            !.pending_contact_capture =
                Set(Some(NewCapture(Strip(res.capture_needed[1])))),
            !.staged_tasks = Set(<<>>),
            !.messages = <<"recipient_not_found">>]
    ELSE IF res.err # ""
    THEN [updates EXCEPT !.staged_tasks = Set(<<>>), !.messages = <<res.err>>]
    ELSE [updates EXCEPT
            !.email_details = Set(Some([plan.email_details[1] EXCEPT !.to = res.resolved])),
            !.awaiting_confirmation = Set(TRUE),
            !.messages = <<"summary">>]

\* The planner branch once updates is built.
PlanBranch(file, plan, updates) ==
    IF plan.action = "ask_for_clarification"
    THEN [updates EXCEPT !.messages = <<"clarify">>]
    ELSE IF plan.action = "none"
    THEN [updates EXCEPT !.messages = <<"cannot_help">>]
    ELSE IF "email" \in Range(PlanTasks(plan))
    THEN PlanResolved(plan, updates, resolve_recipients(file, plan.email_details[1].to))
    ELSE [updates EXCEPT !.awaiting_confirmation = Set(TRUE),
                         !.messages = <<"summary">>]

\* The update dict the planner branch returns for plan.
planner_updates(file, plan) == PlanBranch(file, plan, PlanUpdates(plan))

RoutePlanner ==
    /\ TurnStarts
    /\ {user_message \in UserTexts \ {<<>>} : Reaches(user_message)} # {}
    /\ {slot_update \in SlotUpdates : ~EmailFlowTaken(slot_update)} # {}
    /\ {lookup \in LookupIntents : lookup.intent # "lookup_contact"} # {}
    /\ \E u \in {planner_updates(contacts_file, plan) : plan \in PlannerOutputs} :
          Commit(Mode, "planner", u, contacts_file)

(***************************************************************************)
(* The dispatch nodes and final_response_node                              *)
(***************************************************************************)
\* Without leaving the task in the list.
WithoutNone(tasks, t) == tasks

Without(tasks, t) == SelectSeq(tasks, LAMBDA x : x # t)

\* send_email_node that gives up the remaining tasks when the send fails.
send_email_node_aborts ==
    /\ pc = "send_email"
    /\ IF email_details = None
       THEN /\ turn_messages' = Append(turn_messages, "email_missing")
            /\ UNCHANGED <<pending_tasks, dispatched>>
       ELSE \E ok \in BOOLEAN :
              /\ dispatched' = Append(dispatched, [task |-> "email", ok |-> ok])
              /\ turn_messages' =
                    Append(turn_messages, IF ok THEN "email_sent" ELSE "email_failed")
              /\ pending_tasks' = IF ok THEN Without(pending_tasks, "email") ELSE <<>>
    /\ pc' = after_email(pending_tasks')
    /\ UNCHANGED <<awaiting_confirmation, staged_tasks, email_details, calendar_details,
                   email_draft, pending_contact_capture, final_response, old_ai_message,
                   contacts_file, turn, turns, call>>

send_email_node ==
    /\ pc = "send_email"
    /\ IF email_details = None
       THEN /\ turn_messages' = Append(turn_messages, "email_missing")
            /\ UNCHANGED <<pending_tasks, dispatched>>
       ELSE \E ok \in BOOLEAN :
              /\ dispatched' = Append(dispatched, [task |-> "email", ok |-> ok])
              /\ turn_messages' =
                    Append(turn_messages, IF ok THEN "email_sent" ELSE "email_failed")
              /\ pending_tasks' = Without(pending_tasks, "email")
    /\ pc' = after_email(pending_tasks')
    /\ UNCHANGED <<awaiting_confirmation, staged_tasks, email_details, calendar_details,
                   email_draft, pending_contact_capture, final_response, old_ai_message,
                   contacts_file, turn, turns, call>>

create_calendar_event_node ==
    /\ pc = "create_calendar_event"
    /\ IF calendar_details = None
       THEN /\ turn_messages' = Append(turn_messages, "event_missing")
            /\ UNCHANGED <<pending_tasks, dispatched>>
       ELSE \E ok \in BOOLEAN :
              /\ dispatched' = Append(dispatched, [task |-> "calendar", ok |-> ok])
              /\ turn_messages' =
                    Append(turn_messages, IF ok THEN "event_created" ELSE "event_failed")
              /\ pending_tasks' = Without(pending_tasks, "calendar")
    /\ pc' = "final_response"
    /\ UNCHANGED <<awaiting_confirmation, staged_tasks, email_details, calendar_details,
                   email_draft, pending_contact_capture, final_response, old_ai_message,
                   contacts_file, turn, turns, call>>

\* The latest AIMessage of the whole thread, else a generated notice.
final_response_node ==
    /\ pc = "final_response"
    /\ final_response' = IF turn_messages # <<>> THEN "this_turn"
                         ELSE IF old_ai_message THEN "earlier_turn"
                         ELSE "generated"
    /\ pc' = "idle"
    /\ UNCHANGED <<awaiting_confirmation, staged_tasks, pending_tasks, email_details,
                   calendar_details, email_draft, pending_contact_capture, turn_messages,
                   old_ai_message, contacts_file, turn, dispatched, turns, call>>

Next ==
    \/ OrchEmpty
    \/ GateConfirm
    \/ GateCancel
    \/ GatePause
    \/ GateOther
    \/ CaptureProvideDetails
    \/ CaptureCreate
    \/ CaptureCancel
    \/ CaptureAlternate
    \/ CapturePause
    \/ CaptureDetails
    \/ RouteGreet
    \/ RouteEmailFlow
    \/ RouteLookup
    \/ RoutePlanner
    \/ send_email_node
    \/ create_calendar_event_node
    \/ final_response_node

Spec == Init /\ [][Next]_vars

\* The graph engine runs the node an edge leads to once the node before it
\* has returned: each external call returns or raises.
SpecLive ==
    /\ Spec
    /\ WF_vars(send_email_node)
    /\ WF_vars(create_calendar_event_node)
    /\ WF_vars(final_response_node)
(***************************************************************************)
(* _merge_email_draft on its own: merges applied one after another to a    *)
(* draft, with whatever the slot extractor may return                      *)
(***************************************************************************)
\* Tokens a list has at most.
MaxMergeTokens == 2
MaxTokens == 2

\* All lists of at most n tokens.
TokenLists(tokens, n) == UNION {[1..k -> tokens] : k \in 0..n}

\* Recipient tokens of an update: a blank, a placeholder, and a name with
\* white space before it.
MergeTokens ==
    {<<" ">>, <<"R","e","c","i","p","i","e","n","t">>, <<" ","z","e","d">>}

\* Subject and body values of an update: none, blank, text to trim.
MergeTexts == {<<>>, <<" ">>, <<" ","t">>}

MergeUpdates ==
    [intent : {"send_email"}, to : TokenLists(MergeTokens, MaxMergeTokens),
     subject : MergeTexts, body : MergeTexts]

\* Drafts the merges start from.
StartDrafts ==
    [to : {<<>>, <<tMail, tRo>>}, subject : {<<>>, tSubject},
     body : {<<>>, tBody}]

InitMerge ==
    /\ NewThread
    /\ email_draft \in StartDrafts
    /\ contacts_file = ListFile(InitialRows)
    /\ call = NoCall

\* draft = _merge_email_draft(draft, update)
Merge ==
    \E update \in MergeUpdates :
        /\ email_draft' = merge_email_draft(email_draft, update)
        /\ call' = [fn |-> "merge", existing |-> email_draft, update |-> update]
        /\ UNCHANGED <<pc, awaiting_confirmation, staged_tasks, pending_tasks,
                       email_details, calendar_details, pending_contact_capture,
                       final_response, turn_messages, old_ai_message, contacts_file,
                       turn, dispatched, turns>>

NextMerge == Merge

SpecMerge == InitMerge /\ [][NextMerge]_vars

(***************************************************************************)
(* _resolve_recipients on its own: one call for a token list and a         *)
(* directory                                                               *)
(***************************************************************************)
\* Recipient tokens: a name one contact matches, a name two match, a name
\* nobody matches (bare and with white space around it), an address, a
\* blank and a placeholder.
ResolveTokens ==
    {tJan, tRo, tZed, <<" ","z","e","d"," ">>, tMail, <<" ">>, <<"<","x",">">>}

\* Directories: none, the shipped one, and one where zed is known.
ResolveFiles ==
    {AbsentFile, ListFile(InitialRows),
     ListFile(Append(InitialRows,
                     [first_name |-> <<"Z","e","d">>, last_name |-> <<"N","g">>,
                      email |-> <<"z","@","b",".","c">>, phone |-> <<"5">>]))}

InitResolve ==
    /\ NewThread
    /\ email_draft = EmptyDraft
    /\ \E file \in ResolveFiles, to \in TokenLists(ResolveTokens, MaxTokens) :
          /\ contacts_file = file
          /\ call = [fn |-> "resolve", to |-> to, done |-> FALSE,
                     out |-> ResolveNoRecipient]

\* resolved, err, capture_needed = _resolve_recipients(email_details)
Resolve ==
    /\ call.fn = "resolve"
    /\ ~call.done
    /\ call' = [call EXCEPT !.done = TRUE,
                            !.out = resolve_recipients(contacts_file, call.to)]
    /\ UNCHANGED <<pc, awaiting_confirmation, staged_tasks, pending_tasks,
                   email_details, calendar_details, email_draft,
                   pending_contact_capture, final_response, turn_messages,
                   old_ai_message, contacts_file, turn, dispatched, turns>>

NextResolve == Resolve

SpecResolve == InitResolve /\ [][NextResolve]_vars

(***************************************************************************)
(* save_contact exercised inside the capture handler                       *)
(***************************************************************************)
\* Values handed to save_contact: none, blank, and a value; addresses
\* without a dot in the domain, with white space around and inside.
SaveNames == {<<>>, <<" ">>, <<"Z","e","d">>}
SaveEmails ==
    {<<>>, <<"z","@","b">>, <<" ","z","@","b",".","c">>, <<"z"," ","@","b",".","c">>}
SavePhones == {<<>>, <<"5">>}

\* A capture in collecting_details, from the email flow or from a lookup.
SaveCaptures ==
    {[query |-> tZed, awaiting_create_confirmation |-> FALSE, source |-> source] :
        source \in {"none", "lookup_only"}}

\* The suspended draft.
SaveDrafts == {EmptyDraft, [to |-> <<tZed>>, subject |-> tSubject, body |-> <<>>]}

\* A thread waiting for contact details; call holds the details handed to
\* save_contact, drawn directly so that those it rejects are among them.
InitSave ==
    /\ pc = "idle"
    /\ awaiting_confirmation = FALSE
    /\ staged_tasks = <<>>
    /\ pending_tasks = <<>>
    /\ email_details = None
    /\ calendar_details = None
    /\ final_response = "none"
    /\ turn_messages = <<>>
    /\ old_ai_message = FALSE
    /\ turn = [mode |-> "none", branch |-> "none", gate |-> FALSE]
    /\ dispatched = <<>>
    /\ turns = 0
    /\ pending_contact_capture \in {Some(capture) : capture \in SaveCaptures}
    /\ email_draft \in SaveDrafts
    /\ contacts_file \in ResolveFiles
    /\ call \in [fn : {"save"}, first_name : SaveNames, last_name : SaveNames,
                 email : SaveEmails, phone : SavePhones]

\* _handle_contact_capture_details from the save_contact call on, for the
\* details in call.
SaveCaptured ==
    /\ pc = "idle"
    /\ turns = 0
    /\ call.fn = "save"
    /\ \E r \in {AfterSave(contacts_file, email_draft, Capture, polished, meeting,
                            save_contact(contacts_file, call.first_name,
                                         call.last_name, call.email, call.phone)) :
                     polished \in Polished, meeting \in MeetingIntents} :
          Commit("capture", "details", r.u, r.file)

NextSave == SaveCaptured \/ final_response_node

SpecSave == InitSave /\ [][NextSave]_vars

(***************************************************************************)
(* _build_email_flow_response exercised on its own                         *)
(***************************************************************************)
\* Merged drafts the email flow is entered with.
FlowDrafts ==
    [to : SlotToLists, subject : {<<>>, tSubject}, body : {<<>>, tBody}]

\* A new thread whose first text takes the email flow; call holds the
\* merged draft and what the polish and meeting-intent models return.
InitFlow ==
    /\ NewThread
    /\ email_draft = EmptyDraft
    /\ contacts_file \in ResolveFiles
    /\ call \in [fn : {"flow"}, merged : FlowDrafts, polished : Polished,
                 meeting : MeetingIntents]

\* return _build_email_flow_response(state, merged)
EmailFlow ==
    /\ pc = "idle"
    /\ turns = 0
    /\ call.fn = "flow"
    /\ Commit("normal", "email_flow",
              build_email_flow_response(contacts_file, call.merged, call.polished,
                                        call.meeting),
              contacts_file)

NextFlow == EmailFlow \/ final_response_node

SpecFlow == InitFlow /\ [][NextFlow]_vars

(***************************************************************************)
(* The contact directory exercised on its own: saves and searches          *)
(***************************************************************************)
\* _save_contact_csv that writes the saved row without reading the rows
\* the file holds.
save_contact_csv_fresh(file, first_name, last_name, email, phone) ==
    ListFile(<<[first_name |-> first_name, last_name |-> last_name,
                email |-> email, phone |-> phone]>>)

\* _save_contact_csv: as _save_contact_json, but a row updated in place
\* keeps the address it had.
save_contact_csv(file, first_name, last_name, email, phone) ==
    LET rows == IF file.kind = "list" THEN file.rows ELSE <<>>
        hits == {i \in DOMAIN rows : Lower(Strip(rows[i].email)) = Lower(email)}
    IN  IF hits # {}
        THEN LET i == CHOOSE x \in hits : \A y \in hits : x <= y
             IN  ListFile([k \in DOMAIN rows |->
                             IF k = i
                             THEN [first_name |-> first_name, last_name |-> last_name,
                                   email |-> Strip(rows[k].email), phone |-> phone]
                             ELSE RowContact(rows[k])])
        ELSE ListFile(Append([k \in DOMAIN rows |-> RowContact(rows[k])],
                             [first_name |-> first_name, last_name |-> last_name,
                              email |-> email, phone |-> phone]))

\* save_contact with CONTACTS_FILE_PATH ending in ext.
SaveByExtension(ext, file, s, saved) ==
    IF s.ok /\ ext = "csv"
    THEN [s EXCEPT !.file = save_contact_csv(file, saved.first_name, saved.last_name,
                                            saved.email, saved.phone)]
    ELSE s

save_contact_ext(ext, file, first_name, last_name, email, phone) ==
    SaveByExtension(ext, file, save_contact(file, first_name, last_name, email, phone),
                    save_contact(file, first_name, last_name, email, phone).saved)

\* Details handed to save_contact, and queries handed to search_contacts.
DirFirstNames == {<<"Z","e","d">>, <<"J","a","n">>}
DirLastNames == {<<>>, <<"N","g">>}
DirEmails == {<<"z","@","b",".","c">>, <<"Z","@","b",".","c">>,
              <<"j","@","b",".","c">>, <<"z","@","b">>}
DirPhones == {<<"5">>}
DirQueries == {tJan, tRo, <<"j","a","n","e">>, <<"j","a","n","e","t">>, <<"!">>}

NoContact == [first_name |-> <<>>, last_name |-> <<>>, email |-> <<>>, phone |-> <<>>]

\* A directory file, absent or as shipped, in either format.
InitDir ==
    /\ NewThread
    /\ email_draft = EmptyDraft
    /\ contacts_file \in {AbsentFile, ListFile(InitialRows)}
    /\ call \in [fn : {"none"}, ext : {"json", "csv"}, ok : {FALSE},
                 saved : {NoContact}, query : {<<>>}, out : {<<>>}]

\* save_contact(first_name, last_name, email, phone)
DirSave ==
    \E s \in {save_contact_ext(call.ext, contacts_file, first_name, last_name,
                                email, phone) :
                  first_name \in DirFirstNames, last_name \in DirLastNames,
                  email \in DirEmails, phone \in DirPhones} :
        /\ Len(s.file.rows) <= MaxContacts
        /\ contacts_file' = s.file
        /\ call' = [call EXCEPT !.fn = "save", !.ok = s.ok, !.saved = s.saved,
                                !.query = <<>>, !.out = <<>>]
        /\ UNCHANGED <<pc, awaiting_confirmation, staged_tasks, pending_tasks,
                       email_details, calendar_details, email_draft,
                       pending_contact_capture, final_response, turn_messages,
                       old_ai_message, turn, dispatched, turns>>

\* search_contacts(query), for fixed queries and for the full name and
\* the address of the contact saved last.
DirSearch ==
    \E query \in DirQueries \cup
                 (IF call.ok THEN {ContactName(call.saved), call.saved.email} ELSE {}) :
        /\ call' = [call EXCEPT !.fn = "search", !.query = query,
                                !.out = search_contacts_direct(contacts_file, query)]
        /\ UNCHANGED <<pc, awaiting_confirmation, staged_tasks, pending_tasks,
                       email_details, calendar_details, email_draft,
                       pending_contact_capture, final_response, turn_messages,
                       old_ai_message, contacts_file, turn, dispatched, turns>>

NextDir == DirSave \/ DirSearch

SpecDir == InitDir /\ [][NextDir]_vars

(***************************************************************************)
(* load_contacts over every condition of the storage                       *)
(***************************************************************************)
\* Rows a file holds at most.
MaxRows == 2

\* Elements of a JSON list: a contact record, a record whose address is
\* not valid, and elements that are no records: null, a string, a number.
JsonNull == [json |-> "null"]
JsonString == [json |-> "string"]
JsonNumber == [json |-> "number"]
GoodRow == [first_name |-> <<"Z","e","d">>, last_name |-> <<"N","g">>,
            email |-> <<"z","@","b",".","c">>, phone |-> <<"5">>]
BadMailRow == [GoodRow EXCEPT !.email = <<"z","@","b">>]
NoNameRow == [GoodRow EXCEPT !.first_name = <<>>, !.last_name = <<" ">>]
JsonRows == {GoodRow, BadMailRow, JsonNull, JsonString, JsonNumber}
CsvRows == {GoodRow, BadMailRow, NoNameRow}

IsRecord(row) == "json" \notin DOMAIN row

\* (row or {}).get: an element that is no record and not falsy has no get.
HasNoGet(row) == ~IsRecord(row) /\ row.json \in {"string", "number"}

\* The conditions of the file named by CONTACTS_FILE_PATH: absent; a JSON
\* file that is empty, unparseable, a document that is no list, or a list;
\* a CSV file whose bytes decode as UTF-8 or do not.
LoadFiles ==
    {AbsentFile}
    \cup {[kind |-> kind, rows |-> <<>>] : kind \in {"empty", "unparseable", "object"}}
    \cup {ListFile(rows) : rows \in TokenLists(JsonRows, MaxRows)}
    \cup {[kind |-> "csv", decodes |-> decodes, rows |-> rows] :
            decodes \in BOOLEAN, rows \in TokenLists(CsvRows, MaxRows)}

Loaded(contacts) == [raised |-> FALSE, contacts |-> contacts]
LoadRaises == [raised |-> TRUE, contacts |-> <<>>]

\* _load_json_contacts on a parsed list.
load_json_list(rows) ==
    IF \E i \in DOMAIN rows : HasNoGet(rows[i]) THEN LoadRaises
    ELSE Loaded(load_contacts(ListFile(SelectSeq(rows, IsRecord))))

\* _load_csv_contacts: the file is opened and read outside any try.
load_csv_contacts(file) ==
    IF file.decodes THEN Loaded(load_contacts(ListFile(file.rows))) ELSE LoadRaises

\* load_contacts() as its caller sees it: the contacts, or an exception.
LoadOutcome(file) ==
    IF file.kind = "absent" THEN Loaded(<<>>)
    ELSE IF file.kind = "csv" THEN load_csv_contacts(file)
    ELSE IF file.kind = "list" THEN load_json_list(file.rows)
    ELSE Loaded(<<>>)

InitLoad ==
    /\ NewThread
    /\ email_draft = EmptyDraft
    /\ contacts_file \in LoadFiles
    /\ call = [fn |-> "load", done |-> FALSE, out |-> Loaded(<<>>)]

\* contacts = load_contacts()
Load ==
    /\ call.fn = "load"
    /\ ~call.done
    /\ call' = [call EXCEPT !.done = TRUE, !.out = LoadOutcome(contacts_file)]
    /\ UNCHANGED <<pc, awaiting_confirmation, staged_tasks, pending_tasks,
                   email_details, calendar_details, email_draft,
                   pending_contact_capture, final_response, turn_messages,
                   old_ai_message, contacts_file, turn, dispatched, turns>>

NextLoad == Load

SpecLoad == InitLoad /\ [][NextLoad]_vars

(***************************************************************************)
(* save_contact step by step, beside a process that loads the directory    *)
(***************************************************************************)
\* The file just opened with mode "w": it exists and holds nothing.
TruncatedFile == [kind |-> "empty", rows |-> <<>>]

\* The file holding the first k rows being written and not the rest: such
\* JSON text has no closing bracket and does not parse, such CSV text is
\* a shorter table.
PartialFile(ext, rows, k) ==
    IF ext = "csv" THEN ListFile(SubSeq(rows, 1, k))
    ELSE [kind |-> "unparseable", rows |-> <<>>]

InitWrite ==
    /\ NewThread
    /\ email_draft = EmptyDraft
    /\ contacts_file \in {AbsentFile, ListFile(InitialRows)}
    /\ call \in [fn : {"write"}, ext : {"json", "csv"}, phase : {"idle"},
                 before : {<<>>}, rows : {<<>>}, flushed : {0},
                 observed : {FALSE}, seen : {<<>>}]

\* save_contact up to open(path, "w"): the rows are read, the saved row is
\* put among them, and the file is truncated.
WriteOpen ==
    \E s \in {save_contact_ext(call.ext, contacts_file, first_name, last_name,
                                email, phone) :
                  first_name \in DirFirstNames, last_name \in DirLastNames,
                  email \in DirEmails, phone \in DirPhones} :
        /\ call.phase = "idle"
        /\ s.ok
        /\ call' = [call EXCEPT !.phase = "open",
                                !.before = load_contacts(contacts_file),
                                !.rows = s.file.rows]
        /\ contacts_file' = TruncatedFile
        /\ UNCHANGED <<pc, awaiting_confirmation, staged_tasks, pending_tasks,
                       email_details, calendar_details, email_draft,
                       pending_contact_capture, final_response, turn_messages,
                       old_ai_message, turn, dispatched, turns>>

\* The writer's buffer is flushed before the last row has been written.
WriteFlush ==
        /\ call.phase = "open"
        /\ call.flushed + 1 < Len(call.rows)
        /\ call' = [call EXCEPT !.flushed = call.flushed + 1]
        /\ contacts_file' = PartialFile(call.ext, call.rows, call.flushed + 1)
        /\ UNCHANGED <<pc, awaiting_confirmation, staged_tasks, pending_tasks,
                       email_details, calendar_details, email_draft,
                       pending_contact_capture, final_response, turn_messages,
                       old_ai_message, turn, dispatched, turns>>

\* json.dump / writerows return and the with block closes the file.
WriteClose ==
        /\ call.phase = "open"
        /\ call' = [call EXCEPT !.phase = "closed"]
        /\ contacts_file' = ListFile(call.rows)
        /\ UNCHANGED <<pc, awaiting_confirmation, staged_tasks, pending_tasks,
                       email_details, calendar_details, email_draft,
                       pending_contact_capture, final_response, turn_messages,
                       old_ai_message, turn, dispatched, turns>>

\* The saving process stops before the file is closed.
WriteInterrupted ==
        /\ call.phase = "open"
        /\ call' = [call EXCEPT !.phase = "interrupted"]
        /\ UNCHANGED contacts_file
        /\ UNCHANGED <<pc, awaiting_confirmation, staged_tasks, pending_tasks,
                       email_details, calendar_details, email_draft,
                       pending_contact_capture, final_response, turn_messages,
                       old_ai_message, turn, dispatched, turns>>

\* load_contacts() in another process, at any moment.
WriteObserved ==
        /\ call.fn = "write"
        /\ call' = [call EXCEPT !.observed = TRUE,
                                !.seen = load_contacts(contacts_file)]
        /\ UNCHANGED contacts_file
        /\ UNCHANGED <<pc, awaiting_confirmation, staged_tasks, pending_tasks,
                       email_details, calendar_details, email_draft,
                       pending_contact_capture, final_response, turn_messages,
                       old_ai_message, turn, dispatched, turns>>

NextWrite ==
    WriteOpen \/ WriteFlush \/ WriteClose \/ WriteInterrupted \/ WriteObserved

SpecWrite == InitWrite /\ [][NextWrite]_vars

(***************************************************************************)
(* Two save_contact calls running side by side on one directory file       *)
(***************************************************************************)
\* The file a save writes from, seen as the current file: a save that
\* would read the file again at the moment it writes.
WritesFromCurrent(read, current) == current

\* The file a save writes from: the rows it read when it started.
WritesFrom(read, current) == read

Savers == {1, 2}

RaceEmails == {<<"z","@","b",".","c">>, <<"Z","@","b",".","c">>,
               <<"k","@","b",".","c">>, <<"j","@","b",".","c">>}

InitRace ==
    /\ NewThread
    /\ email_draft = EmptyDraft
    /\ contacts_file \in {AbsentFile, ListFile(InitialRows)}
    /\ call \in [fn : {"race"}, ext : {"json", "csv"},
                 initial : {contacts_file},
                 phase : {[p \in Savers |-> "idle"]},
                 read : {[p \in Savers |-> AbsentFile]},
                 saved : {[p \in Savers |-> NoContact]},
                 overlap : {FALSE}]

\* Saver p enters save_contact and reads the rows of the file.
RaceRead(p) ==
    \E first_name \in DirFirstNames, email \in RaceEmails :
        /\ call.fn = "race"
        /\ call.phase[p] = "idle"
        /\ call' = [call EXCEPT
                       !.phase[p] = "read",
                       !.read[p] = contacts_file,
                       !.saved[p] = [first_name |-> first_name, last_name |-> <<>>,
                                     email |-> email, phone |-> <<"5">>],
                       !.overlap = call.overlap
                                   \/ \E q \in Savers \ {p} : call.phase[q] = "read"]
        /\ UNCHANGED contacts_file
        /\ UNCHANGED <<pc, awaiting_confirmation, staged_tasks, pending_tasks,
                       email_details, calendar_details, email_draft,
                       pending_contact_capture, final_response, turn_messages,
                       old_ai_message, turn, dispatched, turns>>

\* Saver p puts its row among the rows it works from and rewrites the file.
RaceWrite(p) ==
        /\ call.fn = "race"
        /\ call.phase[p] = "read"
        /\ call' = [call EXCEPT !.phase[p] = "written"]
        /\ contacts_file' =
              save_contact_ext(call.ext, WritesFrom(call.read[p], contacts_file),
                               call.saved[p].first_name, call.saved[p].last_name,
                               call.saved[p].email, call.saved[p].phone).file
        /\ UNCHANGED <<pc, awaiting_confirmation, staged_tasks, pending_tasks,
                       email_details, calendar_details, email_draft,
                       pending_contact_capture, final_response, turn_messages,
                       old_ai_message, turn, dispatched, turns>>

NextRace == \E p \in Savers : RaceRead(p) \/ RaceWrite(p)

SpecRace == InitRace /\ [][NextRace]_vars

(***************************************************************************)
(* Two graph runs for one thread, started by the host side by side         *)
(***************************************************************************)
\* The state a run's orchestrator would see if it read the thread again
\* when it runs.
SeesCurrent(read, current) == current

\* The state a run's orchestrator sees: the thread's state as the run
\* read it from the checkpointer when app.invoke started.
Sees(read, current) == read

Runs == {1, 2}

GateRoutes == {"confirm", "cancel"}

ThreadState == [awaiting_confirmation |-> awaiting_confirmation,
                staged_tasks |-> staged_tasks]

\* A thread waiting at the confirmation gate with an action staged, and
\* two requests for it that have not started.
InitTurns ==
    /\ pc = "idle"
    /\ awaiting_confirmation = TRUE
    /\ staged_tasks \in {<<"email">>, <<"calendar">>, <<"email", "calendar">>}
    /\ pending_tasks = <<>>
    /\ email_details = Some([to |-> <<tMail>>, subject |-> tSubject, body |-> tBody])
    /\ calendar_details = Some(PlanEvent)
    /\ email_draft = EmptyDraft
    /\ pending_contact_capture = None
    /\ final_response = "none"
    /\ turn_messages = <<"summary">>
    /\ old_ai_message = FALSE
    /\ contacts_file = ListFile(InitialRows)
    /\ turn = [mode |-> "normal", branch |-> "email_flow", gate |-> FALSE]
    /\ dispatched = <<>>
    /\ turns = 1
    /\ call \in [fn : {"turns"}, staged : {staged_tasks},
                 node : {[r \in Runs |-> "idle"]},
                 route : {[r \in Runs |-> "none"]},
                 read : {[r \in Runs |-> ThreadState]},
                 pending : {[r \in Runs |-> <<>>]}]

\* traced_graph_invoke: app.invoke starts run r on the thread's state; the
\* router will classify the run's text as route.
TurnInvoke(r) ==
    \E route \in GateRoutes :
        /\ call.fn = "turns"
        /\ call.node[r] = "idle"
        /\ call' = [call EXCEPT !.node[r] = "orchestrator", !.route[r] = route,
                                !.read[r] = ThreadState]
        /\ UNCHANGED <<awaiting_confirmation, staged_tasks, pending_tasks, dispatched>>
        /\ UNCHANGED <<pc, email_details, calendar_details, email_draft,
                       pending_contact_capture, final_response, turn_messages,
                       old_ai_message, contacts_file, turn, turns>>

\* orchestrator_node of run r at the gate: confirm hands the staged tasks
\* on, cancel drops them; with the gate closed the text is routed as a new
\* request and nothing is pending.
TurnOrchestrator(r) ==
        /\ call.fn = "turns"
        /\ call.node[r] = "orchestrator"
        /\ IF Sees(call.read[r], ThreadState).awaiting_confirmation
              /\ call.route[r] = "confirm"
           THEN /\ awaiting_confirmation' = FALSE
                /\ pending_tasks' = Sees(call.read[r], ThreadState).staged_tasks
                /\ UNCHANGED staged_tasks
           ELSE IF Sees(call.read[r], ThreadState).awaiting_confirmation
           THEN /\ awaiting_confirmation' = FALSE
                /\ staged_tasks' = <<>>
                /\ pending_tasks' = <<>>
           ELSE /\ pending_tasks' = <<>>
                /\ UNCHANGED <<awaiting_confirmation, staged_tasks>>
        /\ call' = [call EXCEPT !.node[r] = decide_after_orchestrator(pending_tasks'),
                                !.pending[r] = pending_tasks']
        /\ UNCHANGED dispatched
        /\ UNCHANGED <<pc, email_details, calendar_details, email_draft,
                       pending_contact_capture, final_response, turn_messages,
                       old_ai_message, contacts_file, turn, turns>>

\* send_email_node of run r
TurnSendEmail(r) ==
        /\ call.fn = "turns"
        /\ call.node[r] = "send_email"
        /\ dispatched' = Append(dispatched, [task |-> "email", ok |-> TRUE, run |-> r])
        /\ pending_tasks' = Without(call.pending[r], "email")
        /\ call' = [call EXCEPT !.node[r] = after_email(pending_tasks'),
                                !.pending[r] = pending_tasks']
        /\ UNCHANGED <<awaiting_confirmation, staged_tasks>>
        /\ UNCHANGED <<pc, email_details, calendar_details, email_draft,
                       pending_contact_capture, final_response, turn_messages,
                       old_ai_message, contacts_file, turn, turns>>

\* create_calendar_event_node of run r
TurnCreateEvent(r) ==
        /\ call.fn = "turns"
        /\ call.node[r] = "create_calendar_event"
        /\ dispatched' = Append(dispatched, [task |-> "calendar", ok |-> TRUE, run |-> r])
        /\ pending_tasks' = Without(call.pending[r], "calendar")
        /\ call' = [call EXCEPT !.node[r] = "final_response",
                                !.pending[r] = pending_tasks']
        /\ UNCHANGED <<awaiting_confirmation, staged_tasks>>
        /\ UNCHANGED <<pc, email_details, calendar_details, email_draft,
                       pending_contact_capture, final_response, turn_messages,
                       old_ai_message, contacts_file, turn, turns>>

\* final_response_node of run r; app.invoke returns.
TurnFinal(r) ==
        /\ call.fn = "turns"
        /\ call.node[r] = "final_response"
        /\ call' = [call EXCEPT !.node[r] = "done"]
        /\ UNCHANGED <<awaiting_confirmation, staged_tasks, pending_tasks, dispatched>>
        /\ UNCHANGED <<pc, email_details, calendar_details, email_draft,
                       pending_contact_capture, final_response, turn_messages,
                       old_ai_message, contacts_file, turn, turns>>

NextTurns ==
    \E r \in Runs :
        \/ TurnInvoke(r)
        \/ TurnOrchestrator(r)
        \/ TurnSendEmail(r)
        \/ TurnCreateEvent(r)
        \/ TurnFinal(r)

SpecTurns == InitTurns /\ [][NextTurns]_vars

(***************************************************************************)
(* The confirmation gate                                                   *)
(***************************************************************************)
\* The tasks of the provider calls made, in order.
TasksOf(calls) == [i \in DOMAIN calls |-> calls[i].task]

\* The orchestrator step of a turn.
OrchestratorStep == turns' = turns + 1

\* C1: while awaiting_confirmation is true the current turn has made no
\* provider call, and every provider call is made in a turn whose
\* orchestrator step saw awaiting_confirmation = true and classified the
\* text as confirm.
ConfirmationAtomicity ==
    /\ awaiting_confirmation => dispatched = <<>>
    /\ dispatched # <<>> =>
          turn.gate /\ turn.mode = "gate" /\ turn.branch = "confirm"

\* A confirm turn at the gate has sent the staged e-mail.
ConfirmedAndSent ==
    /\ pc = "idle"
    /\ turn.gate
    /\ turn.branch = "confirm"
    /\ \E i \in DOMAIN dispatched : dispatched[i] = [task |-> "email", ok |-> TRUE]

\* C2: a turn classified cancel at the gate leaves awaiting_confirmation
\* false and staged_tasks and pending_tasks empty and makes no provider
\* call; and whatever is dispatched in any turn is a task staged at that
\* time, in a turn classified confirm at the gate.
CancelAtGate ==
    /\ turn.gate /\ turn.mode = "gate" /\ turn.branch = "cancel" =>
          /\ ~awaiting_confirmation
          /\ staged_tasks = <<>>
          /\ pending_tasks = <<>>
          /\ dispatched = <<>>
          /\ pc \in {"final_response", "idle"}
    /\ \A i \in DOMAIN dispatched :
          /\ dispatched[i].task \in Range(staged_tasks)
          /\ turn.gate /\ turn.mode = "gate" /\ turn.branch = "confirm"

\* A staged e-mail was cancelled at the gate and the turn is over.
CancelledAtGate ==
    /\ pc = "idle"
    /\ turn.gate
    /\ turn.mode = "gate"
    /\ turn.branch = "cancel"
    /\ email_details # None
    /\ turn_messages = <<"cancelled">>

\* C3: in a turn classified confirm at the gate the gate is cleared, the
\* calls made so far followed by the tasks still pending are exactly the
\* staged tasks, and when the turn is over the calls made are exactly the
\* staged tasks, each once.
ConfirmDispatchesStaged ==
    turn.gate /\ turn.mode = "gate" /\ turn.branch = "confirm" =>
        /\ ~awaiting_confirmation
        /\ TasksOf(dispatched) \o pending_tasks = staged_tasks
        /\ pc = "idle" => TasksOf(dispatched) = staged_tasks

\* A confirm turn is over that had an e-mail and an event staged.
ConfirmedBoth ==
    /\ pc = "idle"
    /\ turn.gate
    /\ turn.branch = "confirm"
    /\ staged_tasks = <<"email", "calendar">>
    /\ Len(dispatched) = 2

\* C4: a turn classified pause or other at the gate keeps
\* awaiting_confirmation true, leaves staged_tasks, email_details,
\* calendar_details, email_draft and pending_contact_capture as they were,
\* appends one re-prompt and goes straight to the final response; until
\* the turn is over nothing is dispatched and none of these changes.
GateInert ==
    [][/\ (OrchestratorStep /\ awaiting_confirmation
           /\ turn'.branch \in {"pause", "other"}) =>
              /\ awaiting_confirmation'
              /\ UNCHANGED <<staged_tasks, email_details, calendar_details,
                             email_draft, pending_contact_capture>>
              /\ turn_messages' \in {<<"remind_confirm">>, <<"ask_confirm_or_cancel">>}
              /\ dispatched' = <<>>
              /\ pc' = "final_response"
       /\ (~OrchestratorStep /\ turn.gate /\ turn.mode = "gate"
           /\ turn.branch \in {"pause", "other"}) =>
              /\ UNCHANGED <<awaiting_confirmation, staged_tasks, email_details,
                             calendar_details, email_draft, pending_contact_capture,
                             turn_messages>>
              /\ dispatched' = <<>>
              /\ pc' = "idle"]_vars

\* A turn classified other at the gate is over, with an e-mail staged.
GateRePrompted ==
    /\ pc = "idle"
    /\ turn.gate
    /\ turn.mode = "gate"
    /\ turn.branch = "other"
    /\ awaiting_confirmation
    /\ "email" \in Range(staged_tasks)
    /\ turn_messages = <<"ask_confirm_or_cancel">>

\* C5: at the end of a turn awaiting_confirmation and a present
\* pending_contact_capture never hold together.
ModeExclusion ==
    pc = "idle" => ~(awaiting_confirmation /\ pending_contact_capture # None)

\* C6: staged_tasks and pending_tasks are never both non-empty.
StagedPendingExclusive ==
    ~(staged_tasks # <<>> /\ pending_tasks # <<>>)

\* C7: whenever awaiting_confirmation is true, staged_tasks is non-empty
\* and every staged task has its payload.
GateHasResolvedAction ==
    awaiting_confirmation =>
        /\ staged_tasks # <<>>
        /\ "email" \in Range(staged_tasks) => email_details # None
        /\ "calendar" \in Range(staged_tasks) => calendar_details # None

\* C8: at the end of a turn, the recipients of a present email_details are
\* valid e-mail addresses, at least one.
EmailDetailsConcrete ==
    pc = "idle" /\ email_details # None =>
        /\ email_details[1].to # <<>>
        /\ \A i \in DOMAIN email_details[1].to : is_valid_email(email_details[1].to[i])

(***************************************************************************)
(* The draft merger                                                        *)
(***************************************************************************)
\* A value the merger may store in field k: not empty, not blank and, for
\* recipients, a list of tokens none of which is blank or a placeholder.
Stored(k, value) ==
    IF k = "to"
    THEN value # <<>> /\ \A i \in DOMAIN value : ~is_placeholder_recipient(value[i])
    ELSE Strip(value) # <<>>

\* C9: after a merge, a field that was non-empty is non-empty, and a field
\* that changed holds a value that is not empty, blank or a placeholder;
\* recipients that are all blanks and placeholders leave the list alone.
DraftMonotonicity ==
    call.fn = "merge" =>
        /\ \A k \in {"to", "subject", "body"} :
              /\ call.existing[k] # <<>> => email_draft[k] # <<>>
              /\ email_draft[k] # call.existing[k] => Stored(k, email_draft[k])
        /\ (\A i \in DOMAIN call.update.to : is_placeholder_recipient(call.update.to[i]))
              => email_draft.to = call.existing.to

\* A merge whose recipients were a blank and a placeholder, and whose
\* subject was blank, left the recipients and the subject it found.
MergeKeptFields ==
    /\ call.fn = "merge"
    /\ call.existing.to # <<>>
    /\ call.existing.subject # <<>>
    /\ Len(call.update.to) = 2
    /\ \A i \in DOMAIN call.update.to : is_placeholder_recipient(call.update.to[i])
    /\ call.update.subject = <<" ">>
    /\ email_draft.to = call.existing.to
    /\ email_draft.subject = call.existing.subject

(***************************************************************************)
(* The recipient resolver                                                  *)
(***************************************************************************)
\* Token stops the resolver: it is a name (not blank, not a placeholder,
\* not an address) that no contact or several contacts match.
Blocking(file, token) ==
    /\ Strip(token) # <<>>
    /\ ~is_placeholder_recipient(Strip(token))
    /\ ~is_valid_email(Strip(token))
    /\ Len(search_contacts(file, Strip(token))) # 1

\* The position of the first blocking token of to, if there is one.
FirstBlocking(file, to) ==
    {i \in DOMAIN to :
        Blocking(file, to[i]) /\ \A j \in 1..(i - 1) : ~Blocking(file, to[j])}

\* How many of the three outcomes out carries.
Outcomes(out) ==
    Cardinality({k \in {"resolved", "err", "capture"} :
                    \/ k = "resolved" /\ out.resolved # <<>>
                    \/ k = "err" /\ out.err # ""
                    \/ k = "capture" /\ out.capture_needed # <<>>})

\* C10: a call of the resolver carries exactly one outcome; with a blocking
\* token it is the outcome of the list cut after the first one and of that
\* token alone, a capture whose query is that token (trimmed) when nobody
\* matches it and the disambiguation error when several do; without one it
\* is a resolved list or the no-recipient error.
ResolverFirstBlockingWins ==
    call.fn = "resolve" /\ call.done =>
        /\ Outcomes(call.out) = 1
        /\ \A b \in FirstBlocking(contacts_file, call.to) :
              /\ call.out = resolve_recipients(contacts_file, SubSeq(call.to, 1, b))
              /\ call.out = resolve_recipients(contacts_file, <<call.to[b]>>)
              /\ call.out.resolved = <<>>
              /\ IF search_contacts(contacts_file, Strip(call.to[b])) = <<>>
                 THEN call.out.capture_needed = <<Strip(call.to[b])>>
                 ELSE call.out.err = "multiple"
        /\ FirstBlocking(contacts_file, call.to) = {} =>
              /\ call.out.capture_needed = <<>>
              /\ call.out.err \in {"", "no_recipient"}

\* The resolver was called with a name nobody matches, white space around
\* it, followed by a name two contacts match, and answered with the capture
\* signal for the first, trimmed.
ResolverStoppedAtFirst ==
    /\ call.fn = "resolve"
    /\ call.done
    /\ Len(call.to) = 2
    /\ FirstBlocking(contacts_file, call.to) = {1}
    /\ Len(search_contacts(contacts_file, Strip(call.to[2]))) > 1
    /\ call.to[1] # Strip(call.to[1])
    /\ call.out.capture_needed = <<Strip(call.to[1])>>

\* Token is a name: not blank, not a placeholder, not an address.
IsName(token) ==
    /\ Strip(token) # <<>>
    /\ ~is_placeholder_recipient(Strip(token))
    /\ ~is_valid_email(Strip(token))

\* Token is a name no contact of the directory matches.
Unresolvable(file, token) ==
    IsName(token) /\ search_contacts(file, Strip(token)) = <<>>

\* Token is an address, or a name exactly one contact matches.
ValidToken(file, token) ==
    \/ is_valid_email(Strip(token)) /\ ~is_placeholder_recipient(Strip(token))
    \/ IsName(token) /\ Len(search_contacts(file, Strip(token))) = 1

\* C11: for a list of two tokens, one a name nobody matches and the other
\* an address or a name one contact matches, the resolver answers with the
\* capture signal for the unmatched name and no resolved address, whichever
\* of the two comes first.
ResolverOrderIndependent ==
    call.fn = "resolve" /\ call.done /\ Len(call.to) = 2 =>
        \A i \in {1, 2} :
            Unresolvable(contacts_file, call.to[i])
            /\ ValidToken(contacts_file, call.to[3 - i]) =>
                /\ call.out.resolved = <<>>
                /\ call.out.err = ""
                /\ call.out.capture_needed = <<Strip(call.to[i])>>

\* The resolver was called with an address followed by a name nobody
\* matches and answered with the capture signal for the name.
ResolverCaptureAfterValid ==
    /\ call.fn = "resolve"
    /\ call.done
    /\ Len(call.to) = 2
    /\ is_valid_email(Strip(call.to[1]))
    /\ Unresolvable(contacts_file, call.to[2])
    /\ call.out.resolved = <<>>
    /\ call.out.capture_needed = <<Strip(call.to[2])>>

\* The contacts of the directory whose similarity to token reaches the
\* threshold.
AboveThreshold(file, token) == Ranked(Strip(token), load_contacts(file))

\* C12: resolving a single name that two or more contacts match at or
\* above the threshold answers with the disambiguation listing and no
\* resolved address.
NoSilentPick ==
    call.fn = "resolve" /\ call.done /\ Len(call.to) = 1
    /\ IsName(call.to[1])
    /\ Len(AboveThreshold(contacts_file, call.to[1])) >= 2 =>
        /\ call.out.err = "multiple"
        /\ call.out.resolved = <<>>

(***************************************************************************)
(* The contact capture sub-flow                                            *)
(***************************************************************************)
\* The messages of the returns that create a capture record.
CaptureCreatingMessages == {<<"recipient_not_found">>, <<"lookup_not_found_offer">>}

\* C13: at the end of a turn that was classified other in
\* awaiting_create_confirmation and fell through to the top-level routing,
\* a capture record is present only if a branch of this turn created one.
CaptureOtherClears ==
    pc = "idle" /\ turn.mode = "capture_other" /\ pending_contact_capture # None =>
        turn_messages \in CaptureCreatingMessages

\* C14: a turn taken in collecting_details (capture present,
\* awaiting_create_confirmation false) whose text expresses cancel ends
\* with the capture absent and the directory file as it was.
CollectingCancelLeaves ==
    [][(/\ OrchestratorStep
        /\ CaptureActive
        /\ ~Capture.awaiting_create_confirmation
        /\ Classified("cancel")
        /\ turn'.branch = "details") =>
           /\ pending_contact_capture' = None
           /\ contacts_file' = contacts_file]_vars

\* The re-prompts of _parse_contact_details: no text, or fields missing.
MissingDetailsMessages == {<<"ask_contact_details">>, <<"details_missing">>}

\* C15: a turn handled as contact-detail input, typed in
\* collecting_details or in reply to the create question, that ends in the
\* re-prompt for missing details saves nothing and leaves the capture in
\* collecting_details: present, awaiting_create_confirmation false, query
\* and source as they were.
MissingDetailsStayCollecting ==
    [][(/\ OrchestratorStep
        /\ turn'.branch \in {"details", "provide_details"}
        /\ turn_messages' \in MissingDetailsMessages) =>
           /\ contacts_file' = contacts_file
           /\ pending_contact_capture' =
                 Some([Capture EXCEPT !.awaiting_create_confirmation = FALSE])]_vars

\* The positions of to whose token is query once trimmed and lowered.
MatchingTokens(to, query) == {i \in DOMAIN to : Lower(Strip(to[i])) = query}

\* to with email in place of its first token matching query, or appended
\* when none matches.
ExpectedTo(to, query, email) ==
    IF MatchingTokens(to, query) = {} THEN Append(to, email)
    ELSE [i \in DOMAIN to |->
             IF i \in MatchingTokens(to, query)
                /\ \A j \in MatchingTokens(to, query) : i <= j
             THEN email ELSE to[i]]

\* The email flow resumed on the draft with recipients to: the capture is
\* cleared and either the e-mail is staged for the addresses to resolves
\* to, or the draft holds to.
ResumedOn(to) ==
    /\ pending_contact_capture' = None
    /\ IF awaiting_confirmation'
       THEN /\ email_draft' = EmptyDraft
            /\ email_details' # None
            /\ email_details'[1].to = resolve_recipients(contacts_file', to).resolved
            /\ "email" \in Range(staged_tasks')
       ELSE email_draft'.to = to

\* C16: a detail turn that saves the contact in the email flow puts the
\* saved address in place of the first recipient of the draft equal to the
\* capture query after trim and lowercase, keeps every other recipient
\* where it was, appends the address when no recipient matches, clears
\* the capture and resumes the email flow on that draft.
SavedContactReplacesToken ==
    [][(/\ OrchestratorStep
        /\ turn'.branch \in {"details", "provide_details"}
        /\ turn_messages' # <<>>
        /\ Head(turn_messages') = "contact_saved") =>
           \E p \in CapturedDetails :
              /\ save_contact(contacts_file, p.first_name, p.last_name,
                              p.email, p.phone).file = contacts_file'
              /\ ResumedOn(ExpectedTo(email_draft.to, Lower(Strip(Capture.query)),
                                      p.email))]_vars

\* A contact was saved for the first of two equal recipients: the draft
\* holds the saved address followed by the second token as typed.
SavedForFirstOfTwo ==
    /\ pc = "idle"
    /\ turn.branch = "details"
    /\ turn_messages = <<"contact_saved", "collecting">>
    /\ pending_contact_capture = None
    /\ email_draft.to = <<<<"z","@","b",".","c">>, tZed>>

\* save_contact rejects the details: no name, or no valid address.
Rejected(first_name, last_name, email) ==
    \/ Strip(Strip(first_name) \o <<" ">> \o Strip(last_name)) = <<>>
    \/ ~EmailRegexMatch(Strip(email))

\* C17: when the capture handler hands save_contact details without a name
\* or with an invalid address, the directory file is left as it was, and
\* the turn ends with pending_contact_capture, email_draft, staged_tasks
\* and awaiting_confirmation unchanged and the save-failed message.
SaveFailureKeepsState ==
    [][(/\ OrchestratorStep
        /\ call.fn = "save"
        /\ Rejected(call.first_name, call.last_name, call.email)) =>
           /\ contacts_file' = contacts_file
           /\ UNCHANGED <<pending_contact_capture, email_draft, staged_tasks,
                          awaiting_confirmation>>
           /\ turn_messages' = <<"save_failed">>]_vars

\* A save with a name and an address that has no dot in its domain has
\* failed, and the capture and the draft are still there.
SaveFailedInCapture ==
    /\ pc = "idle"
    /\ turns = 1
    /\ call.fn = "save"
    /\ Strip(call.first_name) # <<>>
    /\ call.email = <<"z","@","b">>
    /\ turn_messages = <<"save_failed">>
    /\ pending_contact_capture # None
    /\ email_draft.to = <<tZed>>

(***************************************************************************)
(* Dispatch and the reply of a turn                                        *)
(***************************************************************************)
\* How many calls of the provider for task the turn has made.
CallsOf(calls, task) == Cardinality({i \in DOMAIN calls : calls[i].task = task})

OneMessagePerTurn ==
    pc = "idle" /\ turns > 0 =>
        /\ Len(turn_messages) = 1
        /\ final_response = "this_turn"

\* C20: with the e-mail and the event staged together, a turn classified
\* confirm at the gate queues both and goes to the e-mail node, a turn
\* classified cancel queues nothing and clears both, and any other answer
\* queues nothing; when a turn is over with both still staged, either no
\* provider was called in it or both were, the e-mail first.
BothDecidedTogether ==
    [][/\ (/\ OrchestratorStep
           /\ awaiting_confirmation
           /\ staged_tasks = <<"email", "calendar">>) =>
              IF turn'.branch = "confirm"
              THEN pending_tasks' = <<"email", "calendar">> /\ pc' = "send_email"
              ELSE IF turn'.branch = "cancel"
              THEN /\ pending_tasks' = <<>>
                   /\ staged_tasks' = <<>>
                   /\ ~awaiting_confirmation'
                   /\ pc' = "final_response"
              ELSE /\ pending_tasks' = <<>>
                   /\ awaiting_confirmation'
                   /\ pc' = "final_response"
       /\ (pc' = "idle" /\ staged_tasks' = <<"email", "calendar">>) =>
              TasksOf(dispatched') \in {<<>>, <<"email", "calendar">>}
       /\ (pc' = "idle" /\ turn'.branch = "cancel") => dispatched' = <<>>]_vars

\* One confirm has sent the e-mail and created the event that were staged
\* together.
BothSentByOneConfirm ==
    /\ pc = "idle"
    /\ turn.gate
    /\ turn.branch = "confirm"
    /\ staged_tasks = <<"email", "calendar">>
    /\ dispatched = <<[task |-> "email", ok |-> TRUE], [task |-> "calendar", ok |-> TRUE]>>
    /\ turn_messages = <<"email_sent", "event_created">>

(***************************************************************************)
(* The meeting attached to an e-mail                                       *)
(***************************************************************************)
\* C21: when the email flow stages an e-mail and the meeting intent has
\* create_calendar_event, a title and a start time but no end time, the
\* event is staged with the e-mail and ends one hour after it starts.
MeetingEndDefaults ==
    /\ call.fn = "flow"
    /\ turns = 1
    /\ awaiting_confirmation
    /\ call.meeting.create_calendar_event
    /\ call.meeting.title # <<>>
    /\ call.meeting.start_time # None
    /\ call.meeting.end_time = None
    => /\ staged_tasks = <<"email", "calendar">>
       /\ calendar_details # None
       /\ calendar_details[1].start_time = call.meeting.start_time[1]
       /\ calendar_details[1].end_time = call.meeting.start_time[1] + 1

(***************************************************************************)
(* The contact directory                                                   *)
(***************************************************************************)
\* C22: a search by the exact full name, or by the address, of the contact
\* that save_contact has just accepted returns a list holding that
\* contact.
ContactRoundTrip ==
    /\ call.fn = "search"
    /\ call.ok
    /\ call.query \in {ContactName(call.saved), call.saved.email}
    => \E i \in DOMAIN call.out : call.out[i].email = call.saved.email

\* The rows of the directory file.
RowsOf(file) == IF file.kind = "list" THEN file.rows ELSE <<>>

\* The rows of rows whose address is email, ignoring case.
SameEmail(rows, email) == {i \in DOMAIN rows : Lower(Strip(rows[i].email)) = Lower(email)}

\* No two rows have the same address ignoring case.
NoDuplicates(rows) ==
    \A i, j \in DOMAIN rows :
        Lower(Strip(rows[i].email)) = Lower(Strip(rows[j].email)) => i = j

\* Row holds the name and phone of contact, and its address ignoring case.
HoldsContact(row, contact) ==
    /\ row.first_name = contact.first_name
    /\ row.last_name = contact.last_name
    /\ row.phone = contact.phone
    /\ Lower(Strip(row.email)) = Lower(contact.email)

\* C23: a successful save into a directory without duplicates leaves it
\* without duplicates; when a row has the saved address ignoring case, the
\* number of rows is unchanged, that row holds the saved name and phone
\* and the other rows are as they were; otherwise exactly one row, the
\* saved contact, is appended.
UpsertByEmail ==
    [][(call'.fn = "save" /\ call'.ok /\ NoDuplicates(RowsOf(contacts_file))) =>
          /\ NoDuplicates(RowsOf(contacts_file'))
          /\ IF SameEmail(RowsOf(contacts_file), call'.saved.email) # {}
             THEN /\ Len(RowsOf(contacts_file')) = Len(RowsOf(contacts_file))
                  /\ \A i \in DOMAIN RowsOf(contacts_file) :
                        IF i \in SameEmail(RowsOf(contacts_file), call'.saved.email)
                        THEN HoldsContact(RowsOf(contacts_file')[i], call'.saved)
                        ELSE RowsOf(contacts_file')[i] = RowsOf(contacts_file)[i]
             ELSE RowsOf(contacts_file') =
                     Append(RowsOf(contacts_file), call'.saved)]_vars

\* A save with the address in capitals has updated, in a CSV file, the row
\* stored with the address in small letters.
UpdatedInPlace ==
    /\ call.fn = "save"
    /\ call.ok
    /\ call.ext = "csv"
    /\ call.saved.email = <<"Z","@","b",".","c">>
    /\ \E i \in DOMAIN RowsOf(contacts_file) :
          /\ RowsOf(contacts_file)[i].email = <<"z","@","b",".","c">>
          /\ RowsOf(contacts_file)[i].first_name = call.saved.first_name
          /\ RowsOf(contacts_file)[i].last_name = call.saved.last_name

\* C24: whatever the condition of the storage, load_contacts returns a
\* list of contacts to its caller and raises nothing.
LoadFailsSoft ==
    call.fn = "load" /\ call.done => ~call.out.raised

\* C25: no save_contact call deletes a contact: after the call
\* load_contacts returns, at the same position, every contact it returned
\* before, with the same address ignoring case, and unchanged unless its
\* address is the saved one ignoring case.
ContactsNeverDeleted ==
    [][call'.fn = "save" =>
          /\ Len(load_contacts(contacts_file')) >= Len(load_contacts(contacts_file))
          /\ \A i \in DOMAIN load_contacts(contacts_file) :
                /\ Lower(load_contacts(contacts_file')[i].email) =
                      Lower(load_contacts(contacts_file)[i].email)
                /\ Lower(load_contacts(contacts_file)[i].email) # Lower(call'.saved.email)
                      => load_contacts(contacts_file')[i] =
                            load_contacts(contacts_file)[i]]_vars

\* The first shipped contact has been saved under another name; the second
\* shipped contact is still loaded as it was.
RenamedBesideKept ==
    /\ call.fn = "save"
    /\ call.ok
    /\ call.saved.email = InitialRows[1].email
    /\ Len(load_contacts(contacts_file)) >= 2
    /\ load_contacts(contacts_file)[1].first_name = <<"Z","e","d">>
    /\ load_contacts(contacts_file)[1].email = InitialRows[1].email
    /\ load_contacts(contacts_file)[2] = InitialRows[2]

\* C26: a load_contacts that runs while save_contact is writing, or after
\* save_contact was interrupted, returns the whole collection as it was
\* before the save or the whole collection as the save leaves it.
SaveIsAtomic ==
    call.fn = "write" /\ call.observed /\ call.phase # "idle" =>
        call.seen \in {call.before, load_contacts(ListFile(call.rows))}

\* The normalized query is the normalized first name, last name, full name
\* or local part of the address of contact c.
IsExactFor(query, c) ==
    \/ normalize(query) = normalize(c.first_name)
    \/ normalize(query) = normalize(c.last_name)
    \/ normalize(query) = normalize(c.first_name \o <<" ">> \o c.last_name)
    \/ \E k \in DOMAIN c.email :
          /\ c.email[k] = "@"
          /\ \A h \in 1..(k - 1) : c.email[h] # "@"
          /\ normalize(query) = normalize(SubSeq(c.email, 1, k - 1))

ExactFor(query, contacts) ==
    SelectSeq(contacts, LAMBDA c : IsExactFor(query, c))

\* C27: a search whose query normalizes to nothing returns no contact; a
\* search with exact matches returns exactly those, in directory order;
\* only a search without exact match returns fuzzy matches, each a loaded
\* contact whose best similarity reaches the threshold.
ExactMatchPriority ==
    call.fn = "search" =>
        IF normalize(call.query) = <<>> THEN call.out = <<>>
        ELSE IF ExactFor(call.query, load_contacts(contacts_file)) # <<>>
        THEN call.out = ExactFor(call.query, load_contacts(contacts_file))
        ELSE \A i \in DOMAIN call.out :
                /\ \E k \in DOMAIN load_contacts(contacts_file) :
                      load_contacts(contacts_file)[k] = call.out[i]
                /\ FracGE(ContactScore(call.query, call.out[i]),
                          <<ThresholdNum, ThresholdDen>>)

\* The search for "jan" has returned Jan Ro alone although Jane Ro, also
\* in the directory, is similar enough for a fuzzy match.
ExactBeatsFuzzy ==
    /\ call.fn = "search"
    /\ call.query = tJan
    /\ call.out = <<InitialRows[1]>>
    /\ load_contacts(contacts_file) = InitialRows
    /\ FracGE(ContactScore(tJan, InitialRows[2]), <<ThresholdNum, ThresholdDen>>)
    /\ ~IsExactFor(tJan, InitialRows[2])

\* Token of a to-list the email flow looks up in the directory, and the
\* number of contacts the lookup returns.
NameToken(token) == Strip(token) # <<>> /\ ~is_valid_email(Strip(token))

MatchCount(file, token) == Len(search_contacts(file, Strip(token)))

\* C28: after a turn of the email flow that leaves a draft, a draft whose
\* to-list has a name no contact matches has opened a contact capture for
\* such a name, awaiting the create confirmation, whatever subject and body
\* are; a draft whose names each match exactly one contact has opened no
\* capture (none is pending unless one was before the turn) and, with
\* subject or body missing, the turn has ended with the
\* missing-field prompt, the draft kept and nothing staged.
RecipientsValidatedFirst ==
    turn.branch = "email_flow" /\ turn_messages # <<"summary">> =>
        /\ (\E i \in DOMAIN email_draft.to :
               NameToken(email_draft.to[i])
               /\ MatchCount(contacts_file, email_draft.to[i]) = 0)
           => /\ pending_contact_capture # None
              /\ Capture.awaiting_create_confirmation
              /\ \E i \in DOMAIN email_draft.to :
                    /\ NameToken(email_draft.to[i])
                    /\ MatchCount(contacts_file, email_draft.to[i]) = 0
                    /\ Capture.query = Strip(email_draft.to[i])
        /\ (\A i \in DOMAIN email_draft.to :
               NameToken(email_draft.to[i])
               => MatchCount(contacts_file, email_draft.to[i]) = 1)
           => /\ turn.mode = "normal" => pending_contact_capture = None
              /\ (email_draft.subject = <<>> \/ email_draft.body = <<>>)
                 => /\ turn_messages = <<"collecting">>
                    /\ pc \in {"final_response", "idle"}
                    /\ staged_tasks = <<>>
                    /\ ~awaiting_confirmation

\* _lookup_contact_details finds no contact for the trimmed query q.
LookupMisses(file, q) ==
    /\ q # <<>>
    /\ IF is_valid_email(q)
       THEN \A i \in DOMAIN load_contacts(file) :
               Lower(load_contacts(file)[i].email) # Lower(q)
       ELSE search_contacts(file, q) = <<>>

LookupOnlyCapture(q) ==
    Some([query |-> q, awaiting_create_confirmation |-> TRUE, source |-> "lookup_only"])

\* C29: a lookup turn whose query finds no contact opens the capture for
\* that query with source lookup_only, and a lookup turn that finds
\* contacts (or has no query) leaves pending_contact_capture as it was;
\* the turn in which a lookup_only capture saves its contact clears the
\* capture and leaves email_draft, staged_tasks, email_details and
\* awaiting_confirmation as they were.
LookupOnlyCaptureKeepsDraft ==
    [][OrchestratorStep =>
          /\ turn'.branch = "lookup" =>
                /\ \E l \in LookupIntents :
                      /\ l.intent = "lookup_contact"
                      /\ IF LookupMisses(contacts_file, Strip(l.query))
                         THEN pending_contact_capture' = LookupOnlyCapture(Strip(l.query))
                         ELSE pending_contact_capture' = pending_contact_capture
                /\ pending_contact_capture' # pending_contact_capture =>
                      /\ pending_contact_capture' # None
                      /\ pending_contact_capture'[1].source = "lookup_only"
                      /\ pending_contact_capture'[1].awaiting_create_confirmation
                      /\ LookupMisses(contacts_file, pending_contact_capture'[1].query)
                /\ turn_messages' \in {<<"lookup_details">>, <<"lookup_multiple">>} =>
                      pending_contact_capture' = pending_contact_capture
          /\ ( /\ pending_contact_capture # None
               /\ Capture.source = "lookup_only"
               /\ turn'.mode = "capture"
               /\ \/ contacts_file' # contacts_file
                  \/ turn_messages' \in {<<"contact_saved">>, <<"contact_saved_details">>} )
             => /\ pending_contact_capture' = None
                /\ email_draft' = email_draft
                /\ staged_tasks' = staged_tasks
                /\ email_details' = email_details
                /\ awaiting_confirmation' = awaiting_confirmation]_vars

\* A lookup_only capture has saved its contact while a draft was being
\* collected: the capture is cleared and the draft is still there.
LookupCaptureSaved ==
    /\ turn.mode = "capture"
    /\ turn_messages = <<"contact_saved_details">>
    /\ pending_contact_capture = None
    /\ contacts_file # ListFile(InitialRows)
    /\ contacts_file # AbsentFile
    /\ email_draft # EmptyDraft

\* addr is what the alternate candidate stands for: the candidate itself
\* when it is a valid address, else the address of the one contact the
\* directory search returns for it.
IsAlternate(file, candidate, addr) ==
    /\ candidate # <<>>
    /\ \/ is_valid_email(candidate) /\ addr = candidate
       \/ /\ ~is_valid_email(candidate)
          /\ Len(search_contacts(file, candidate)) = 1
          /\ addr = search_contacts(file, candidate)[1].email

\* The alternates a turn can supply: the router's recipient_candidate, or
\* the user's text when the router gives none.
SuppliedAlternates ==
    {Candidate(recipient_candidate, user_message) :
        recipient_candidate \in Candidates, user_message \in UserTexts \ {<<>>}}

GreetingClearsFlow ==
    [][OrchestratorStep /\ turn'.branch = "greet" =>
          /\ pc' = "final_response"
          /\ pending_tasks' = <<>>
          /\ staged_tasks' = staged_tasks
          /\ ~awaiting_confirmation'
          /\ email_details' = email_details
          /\ calendar_details' = calendar_details
          /\ pending_contact_capture' = None
          /\ email_draft' = EmptyDraft]_vars

\* Some contact the directory file holds has the address email.
HoldsAddress(email) ==
    \E i \in DOMAIN load_contacts(contacts_file) :
        load_contacts(contacts_file)[i].email = email

\* Both savers have finished, with two addresses that differ also when
\* case is ignored and that the directory did not hold at the start.
TwoNewSaved ==
    /\ call.fn = "race"
    /\ \A p \in Savers : call.phase[p] = "written"
    /\ Lower(call.saved[1].email) # Lower(call.saved[2].email)
    /\ \A p \in Savers : \A i \in DOMAIN load_contacts(call.initial) :
          Lower(load_contacts(call.initial)[i].email) # Lower(call.saved[p].email)

\* C32: of two save_contact calls for two different new addresses, when
\* both read the file before either wrote it the file ends with exactly
\* one of the two contacts; when one ran after the other it ends with both.
InterleavedSavesLoseOne ==
    TwoNewSaved =>
        IF call.overlap
        THEN HoldsAddress(call.saved[1].email) # HoldsAddress(call.saved[2].email)
        ELSE HoldsAddress(call.saved[1].email) /\ HoldsAddress(call.saved[2].email)

\* Two interleaved saves into the shipped directory have ended: the file
\* holds the second saver's contact and not the first's.
FirstSaveLost ==
    /\ TwoNewSaved
    /\ call.overlap
    /\ call.initial = ListFile(InitialRows)
    /\ HoldsAddress(call.saved[2].email)
    /\ ~HoldsAddress(call.saved[1].email)
    /\ Len(load_contacts(contacts_file)) = 3

\* Provider calls for task made by run r.
CallsBy(r, task) ==
    Cardinality({i \in DOMAIN dispatched :
                    dispatched[i].task = task /\ dispatched[i].run = r})

\* Both runs are over, both texts were classified confirm, and both runs
\* started while the thread was awaiting confirmation.
BothConfirmedAtGate ==
    /\ call.fn = "turns"
    /\ \A r \in Runs : /\ call.node[r] = "done"
                       /\ call.route[r] = "confirm"
                       /\ call.read[r].awaiting_confirmation

\* C33: when two runs of one thread both started at the gate and both are
\* classified confirm, each staged task is handed to its provider by each
\* of the two runs, so twice; when the second run started after the
\* first run's orchestrator closed the gate, each staged task is handed
\* over once.
ConcurrentConfirmsDispatchTwice ==
    /\ BothConfirmedAtGate =>
          \A i \in DOMAIN call.staged : \A r \in Runs :
              CallsBy(r, call.staged[i]) = 1
    /\ ( /\ call.fn = "turns"
         /\ \A r \in Runs : call.node[r] = "done" /\ call.route[r] = "confirm"
         /\ \E r \in Runs : ~call.read[r].awaiting_confirmation )
       => \A i \in DOMAIN call.staged : CallsOf(dispatched, call.staged[i]) = 1

\* Two runs confirmed the staged e-mail and event side by side: the e-mail
\* was sent twice and the event created twice.
SentTwice ==
    /\ BothConfirmedAtGate
    /\ call.staged = <<"email", "calendar">>
    /\ CallsOf(dispatched, "email") = 2
    /\ CallsOf(dispatched, "calendar") = 2

\* A step empties a draft that had a populated field only by staging the
\* e-mail at the confirmation gate.
DraftEndsStaged ==
    email_draft # EmptyDraft /\ email_draft' = EmptyDraft =>
        /\ awaiting_confirmation'
        /\ "email" \in Range(staged_tasks')
        /\ email_details' # None

\* C34 as stated: a draft with a populated field is emptied only by the
\* turn that stages the e-mail, and while it is there, with the gate closed
\* and no capture collecting details, every turn that is not a greeting
\* (greet, or pause inside a capture) is routed to the email flow (directly
\* or through an alternate recipient).
StartedDraftTakesEveryTurn ==
    [][/\ DraftEndsStaged
       /\ ( /\ OrchestratorStep
            /\ email_draft # EmptyDraft
            /\ ~awaiting_confirmation
            /\ pending_contact_capture # None => Capture.awaiting_create_confirmation )
          => turn'.branch \in {"greet", "pause", "email_flow", "alternate_recipient"}]_vars

\* C34, amended: a draft with a populated field is emptied only by the
\* turn that stages the e-mail; while it is there no turn takes the lookup
\* or the planner branch, and every turn that reaches the request routing
\* (it has text and is answered neither by the gate nor by a capture
\* branch) is a greeting or is routed to the email flow.
StartedDraftEndsStaged ==
    [][/\ DraftEndsStaged
       /\ OrchestratorStep /\ email_draft # EmptyDraft
          => /\ turn'.branch \notin {"lookup", "planner"}
             /\ turn'.mode \in {"normal", "capture_other"}
                => turn'.branch \in {"greet", "email_flow"}]_vars

\* A capture opened for a recipient of the draft has been cancelled: the
\* capture is gone and the draft is still there.
DraftOutlivesCancel ==
    /\ turn.mode = "capture"
    /\ turn.branch = "cancel"
    /\ pending_contact_capture = None
    /\ email_draft # EmptyDraft
    /\ ~awaiting_confirmation

\* C35: a turn in which the email flow asks whether to create a contact
\* for a recipient nobody matches ends with a contact capture pending for
\* that recipient and awaiting the create confirmation.
PromptMatchesCapture ==
    ( /\ turn.branch \in {"email_flow", "alternate_recipient", "details",
                          "provide_details"}
      /\ \E i \in DOMAIN turn_messages : turn_messages[i] = "recipient_not_found" ) =>
        /\ pending_contact_capture # None
        /\ Capture.awaiting_create_confirmation
        /\ \E i \in DOMAIN email_draft.to :
              /\ Capture.query = Strip(email_draft.to[i])
              /\ MatchCount(contacts_file, email_draft.to[i]) = 0

\* C36: pending_tasks is empty whenever a turn is over; every orchestrator
\* step other than the confirm branch leaves it empty; a dispatch node
\* finds the payload of its task present and takes its task out.
PendingTasksEndEmpty ==
    [][/\ pc' = "idle" => pending_tasks' = <<>>
       /\ OrchestratorStep /\ turn'.branch # "confirm" => pending_tasks' = <<>>
       /\ pc = "send_email" =>
             /\ email_details # None
             /\ pending_tasks' = SelectSeq(pending_tasks, LAMBDA t : t # "email")
             /\ Len(dispatched') = Len(dispatched) + 1
       /\ pc = "create_calendar_event" =>
             /\ calendar_details # None
             /\ pending_tasks' = SelectSeq(pending_tasks, LAMBDA t : t # "calendar")
             /\ Len(dispatched') = Len(dispatched) + 1]_vars

\* A confirm turn that dispatched the e-mail and the event is over and
\* nothing is pending.
ConfirmTurnOverNothingPending ==
    /\ pc = "idle"
    /\ turn.branch = "confirm"
    /\ Len(dispatched) = 2
    /\ pending_tasks = <<>>
    /\ final_response # "none"

\* The tasks handed to a provider in the current turn, in order.
DispatchedTasks == [i \in DOMAIN dispatched |-> dispatched[i].task]

\* C37: in a turn no event is created before the e-mail is sent, and once
\* a confirm turn with the e-mail and the event staged has reached the
\* final response both providers have been called, the e-mail first,
\* whether or not the send succeeded.
EmailThenCalendar ==
    /\ \A i, j \in DOMAIN dispatched :
          dispatched[i].task = "email" /\ dispatched[j].task = "calendar" => i < j
    /\ ( /\ turn.branch = "confirm"
         /\ pc \in {"final_response", "idle"}
         /\ staged_tasks = <<"email", "calendar">> )
       => DispatchedTasks = <<"email", "calendar">>
    /\ ( /\ turn.branch = "confirm"
         /\ pc = "create_calendar_event"
         /\ staged_tasks = <<"email", "calendar">> )
       => DispatchedTasks = <<"email">>

\* The send failed and the event was attempted all the same, and failed
\* too.
BothAttemptedBothFailed ==
    /\ turn.branch = "confirm"
    /\ Len(dispatched) = 2
    /\ dispatched[1] = [task |-> "email", ok |-> FALSE]
    /\ dispatched[2] = [task |-> "calendar", ok |-> FALSE]

\* The edges of the graph: the node a run is at, and the node it is at after
\* one more step.
GraphEdge ==
    \/ pc = "idle" /\ pc' \in {"send_email", "create_calendar_event", "final_response"}
    \/ pc = "send_email" /\ pc' \in {"create_calendar_event", "final_response"}
    \/ pc = "create_calendar_event" /\ pc' = "final_response"
    \/ pc = "final_response" /\ pc' = "idle"

\* C38: every step of a turn follows an edge orchestrator -> send_email ->
\* create_calendar_event -> final_response -> end that only leads forward,
\* a started turn always reaches its end, and in one turn each provider is
\* called at most once.
TurnTerminates ==
    /\ [][GraphEdge]_vars
    /\ [](CallsOf(dispatched, "email") <= 1 /\ CallsOf(dispatched, "calendar") <= 1)
    /\ (pc # "idle") ~> (pc = "idle")

\* A turn has visited all four nodes and ended.
FullTurnEnded ==
    /\ pc = "idle"
    /\ turns > 0
    /\ DispatchedTasks = <<"email", "calendar">>
    /\ final_response = "this_turn"

\* C39: a confirm turn starts at the open gate and closes it; a step that
\* opens the gate writes staged_tasks in the same update: the email flow
\* the e-mail (with the event when one is staged with it), the planner the
\* tasks of its plan, each with its payload; so the tasks a later confirm
\* dispatches are those of the latest staging and never the ones left in
\* staged_tasks by an earlier confirm.
StagingOverwritesStaged ==
    [][/\ OrchestratorStep /\ turn'.branch = "confirm"
          => /\ awaiting_confirmation
             /\ ~awaiting_confirmation'
             /\ pending_tasks' = staged_tasks
       /\ ~awaiting_confirmation /\ awaiting_confirmation'
          => /\ OrchestratorStep
             /\ turn_messages' # <<>>
             /\ turn_messages'[Len(turn_messages')] = "summary"
             /\ IF turn'.branch = "planner"
                THEN \E plan \in PlannerOutputs :
                        /\ staged_tasks' = PlanTasks(plan)
                        /\ calendar_details' = plan.calendar_details
                        /\ (email_details' = None) = (plan.email_details = None)
                ELSE /\ turn'.branch \in {"email_flow", "alternate_recipient",
                                          "details", "provide_details"}
                     /\ staged_tasks' \in {<<"email">>, <<"email", "calendar">>}
                     /\ email_details' # None
                     /\ email_details'[1].to # <<>>
                     /\ staged_tasks' = <<"email", "calendar">>
                        => calendar_details' # None]_vars

\* After an e-mail was staged, a later planner turn staged an event alone
\* and the confirm of the fourth turn has created the event and sent
\* nothing.
SecondConfirmDispatchesNew ==
    /\ turns = 4
    /\ turn.branch = "confirm"
    /\ pc = "idle"
    /\ staged_tasks = <<"calendar">>
    /\ DispatchedTasks = <<"calendar">>
    /\ email_details = None

\* C40: a planner turn that asks whether to create a contact leaves
\* email_draft and staged_tasks empty; the create answer and an incomplete
\* details answer leave the draft as it is; and the capture turn that saves
\* the contact over that empty draft ends with the draft's to-list being
\* the saved address alone, subject and body empty, the missing-field
\* prompt as its last message and the confirmation gate closed.
PlannerCaptureSuspendsNoDraft ==
    [][/\ /\ OrchestratorStep
          /\ turn'.branch = "planner"
          /\ turn_messages' = <<"recipient_not_found">>
          => /\ email_draft' = EmptyDraft
             /\ staged_tasks' = <<>>
             /\ pending_contact_capture' # None
             /\ pending_contact_capture'[1].source # "lookup_only"
             /\ ~awaiting_confirmation'
       /\ /\ OrchestratorStep
          /\ turn'.mode = "capture"
          /\ turn'.branch \in {"create", "details", "provide_details"}
          /\ (turn_messages' = <<>> \/ turn_messages'[1] # "contact_saved")
          => email_draft' = email_draft
       /\ /\ OrchestratorStep
          /\ turn'.mode = "capture"
          /\ turn'.branch \in {"details", "provide_details"}
          /\ email_draft = EmptyDraft
          /\ turn_messages' # <<>>
          /\ turn_messages'[1] = "contact_saved"
          => /\ Len(email_draft'.to) = 1
             /\ \E i \in DOMAIN load_contacts(contacts_file') :
                    load_contacts(contacts_file')[i].email = email_draft'.to[1]
             /\ email_draft'.subject = <<>>
             /\ email_draft'.body = <<>>
             /\ turn_messages' = <<"contact_saved", "collecting">>
             /\ ~awaiting_confirmation'
             /\ pending_tasks' = <<>>
             /\ pending_contact_capture' = None]_vars

\* The planner's e-mail, subject and body included, is still in
\* email_details, the contact asked for was saved, and the turn has ended
\* asking for subject and body over a draft of the saved address alone.
PlannerCaptureSavedAsksAgain ==
    /\ turn.mode = "capture"
    /\ turn.branch = "details"
    /\ turn_messages = <<"contact_saved", "collecting">>
    /\ email_details # None
    /\ email_details[1].subject = tSubject
    /\ email_details[1].body = tBody
    /\ Len(email_draft.to) = 1
    /\ email_draft.to # email_details[1].to
    /\ email_draft.subject = <<>>
    /\ ~awaiting_confirmation
    /\ staged_tasks = <<>>

====
